---- MODULE Spec2Model ----
(***************************************************************************)
(* Verification model of the classroom-assignment analysis scripts:        *)
(*   - plot_pareto_front.py: dominates / get_non_dominated_solutions       *)
(*   - kolmogorov_smirnov_test.py: perform_kolmogorov_smirnov_test         *)
(*   - anderson_darling_test.py: perform_anderson_darling_test             *)
(*   - anova_test.py: perform_normality_test_ks, perform_one_way_anova,    *)
(*     analyze_by_configuration                                            *)
(* Floating-point objective values are modelled by small integers; the     *)
(* code only compares them.  Python's 0-based indices are 1-based here.    *)
(* Statistics are integers in units of 1/1000, p-values and significance   *)
(* levels integers in units of 1/1000000 (0.05 is 50000).  A float is a    *)
(* record [nan, v], so that NaN compares false with everything, as in      *)
(* IEEE 754.  scipy's routines are external: each call yields one of a     *)
(* small set of outcomes (a result, or an exception).                      *)
(***************************************************************************)
EXTENDS Integers, Sequences, FiniteSets, TLC

\* ---------------------------------------------------------------- bounds
MaxSols == 3
MaxObj == 3
MaxGroups == 2
MaxN == 8
MaxRows == 4
MaxFiles == 2
MaxPhGroups == 3
MaxPhRows == 3
MaxBatchFiles == 3
MaxFolders == 2
MaxReplicates == 3
MaxExams == 3

VARIABLES
    \* get_non_dominated_solutions (plot_pareto_front.py)
    pareto_pc,          \* position in the function
    solutions,          \* the input sequence of (f1, f2)
    i_idx,              \* outer loop index i
    j_idx,              \* inner loop index j
    is_dominated,       \* the flag of the current outer iteration
    non_dominated,      \* output list
    dominated,          \* output list
    dominated_indices,  \* indices appended next to dominated
    \* the normality functions
    method,             \* which function runs: "KS", "AD" or "ANOVA_KS"
    significance_level, \* requested alpha
    data,               \* perform_kolmogorov_smirnov_test: the sample
    ks_result,          \* perform_kolmogorov_smirnov_test: the returned dict
    groups,             \* group-level functions: the samples
    group_names,        \* group-level functions: their names
    valid_groups,       \* the non-empty groups
    valid_names,
    gi,                 \* index of the group the loop is at
    results,            \* dict name -> per-group result
    all_normal,
    norm_pc,            \* position in the normality function
    norm_ret,           \* the returned dict
    stat_calls,         \* the calls made to scipy's normality routines, in order
    \* analyze_by_configuration (anova_test.py)
    drv_pc,             \* position in the function
    hypervolume_df,     \* rows of the hypervolume table
    final_metrics,      \* rows of extract_final_metrics(evolution_df)
    unit_idx,           \* index of the parameter or metric the loops are at
    anova_results,      \* `results`: dict key -> ANOVA result
    normality_results,  \* dict key -> normality result
    omnibus_calls,      \* the omnibus tests run, in order
    \* kruskal_wallis_test.py, python/kruskal_wallis.py and the post-hoc
    \* functions of anova_test.py
    ph_pc,              \* position in the function that runs
    ph_entry,           \* which function was called
    ph_df,              \* main: rows of load_hypervolume_data
    ph_alpha,           \* alpha
    correction,         \* perform_posthoc_tests: the correction argument
    factor_idx,         \* main: index of the factor the loop is at
    groups_data,        \* dict group name -> data
    ph_names,           \* the list of group names (keys in order)
    kw_result,          \* the dict perform_kruskal_wallis_test returned
    comparisons,        \* list of pairs of group names
    n_comparisons,      \* the pair count used for the correction
    pair_idx,           \* index of the pair the loop is at
    posthoc_results,    \* the list of comparison records
    all_results,        \* main: the list of per-factor results
    ph_calls,           \* the calls made to scipy's routines, in order
    \* the batch mode of kolmogorov_smirnov_test.py
    batch_pc,           \* position in main's batch branch
    batch_files,        \* find_all_test_files: the files found, sorted
    batch_column,       \* --column, "None" when not given
    batch_alpha,        \* --alpha
    verbose,            \* --verbose
    file_idx,           \* process_all_files: index of the file the loop is at
    batch_results,      \* process_all_files: all_results
    csv_rows,           \* the rows written by save_batch_results_to_csv
    \* load_hypervolume_data and the grouping of analyze_by_factor
    grid_pc,            \* position in main of kruskal_wallis_test.py
    found_folders,      \* the folders of the files found, sorted by path
    folder_idx,         \* load_hypervolume_data: index of the file the loop is at
    all_data,           \* load_hypervolume_data: the rows collected
    grid_factor_idx,    \* main: index of the factor the loop is at
    grid_groups,        \* the keys of groups_data of each factor analysed
    \* the parallel replicate runner (run_normality_test_parallel.py)
    run_pc,             \* position in main
    futures,            \* replicate -> state of its future and of its worker
    stats_csv,          \* the rows of the shared hypervolume statistics CSV
    hypervolumes,       \* main: the (replicate, hypervolume) pairs
    failed_replicates,  \* main: the replicates without a hypervolume
    saved_rows,         \* the rows save_results wrote (Replica, Seed, Hypervolume)
    \* the conflict relation of preprocess_data.py
    conf_pc,            \* position in process_instance
    examenes,           \* the exams loaded, `id` equal to the list index
    conflict_groups,    \* key (semester, career) -> list of exam ids
    conflict_matrix,    \* the adjacency matrix of conflicts
    conflict_pairs,     \* the pairs [i, j], i < j, with conflict_matrix[i][j] == 1
    \* main of anova_test.py
    amain_pc,           \* position in main
    main_names,         \* the local names main has bound
    main_results        \* the value main's `results` is bound to

pareto_vars == <<pareto_pc, solutions, i_idx, j_idx, is_dominated,
                 non_dominated, dominated, dominated_indices>>

norm_vars == <<method, significance_level, data, ks_result, groups, group_names,
               valid_groups, valid_names, gi, results, all_normal, norm_pc,
               norm_ret, stat_calls>>

drv_vars == <<drv_pc, hypervolume_df, final_metrics, unit_idx, anova_results,
              normality_results, omnibus_calls>>

ph_vars == <<ph_pc, ph_entry, ph_df, ph_alpha, correction, factor_idx, groups_data,
             ph_names, kw_result, comparisons, n_comparisons, pair_idx,
             posthoc_results, all_results, ph_calls>>

batch_vars == <<batch_pc, batch_files, batch_column, batch_alpha, verbose, file_idx,
                batch_results, csv_rows>>

grid_vars == <<grid_pc, found_folders, folder_idx, all_data, grid_factor_idx, grid_groups>>

run_vars == <<run_pc, futures, stats_csv, hypervolumes, failed_replicates, saved_rows>>

conf_vars == <<conf_pc, examenes, conflict_groups, conflict_matrix, conflict_pairs>>

amain_vars == <<amain_pc, main_names, main_results>>

extra_vars == <<grid_vars, run_vars, conf_vars, amain_vars>>

outside_grid == <<pareto_vars, norm_vars, drv_vars, ph_vars, batch_vars, run_vars,
                  conf_vars, amain_vars>>

outside_run == <<pareto_vars, norm_vars, drv_vars, ph_vars, batch_vars, grid_vars,
                 conf_vars, amain_vars>>

outside_conf == <<pareto_vars, norm_vars, drv_vars, ph_vars, batch_vars, grid_vars,
                  run_vars, amain_vars>>

outside_amain == <<pareto_vars, norm_vars, drv_vars, ph_vars, batch_vars, grid_vars,
                   run_vars, conf_vars>>

\* the variables of the components modelled after analyze_by_configuration
later_vars == <<ph_vars, batch_vars, extra_vars>>

vars == <<pareto_vars, norm_vars, drv_vars, later_vars>>

\* ------------------------------------------------------------- helpers
Range(s) == {s[k] : k \in 1..Len(s)}

SeqsUpTo(S, n) == UNION {[1..k -> S] : k \in 0..n}

\* number of indices of s holding x (multiset count)
Count(s, x) == Cardinality({k \in 1..Len(s) : s[k] = x})

\* ------------------------------------------------- plot_pareto_front.py
Points == (1..MaxObj) \X (1..MaxObj)

\* the input of the spec's worked example
ExampleSolutions == <<(<<1, 10>>), (<<2, 9>>), (<<3, 5>>), (<<2, 9>>)>>

ParetoInputs == SeqsUpTo(Points, MaxSols) \cup {ExampleSolutions}

\* a dominance test that forgets "at least one strictly better"
dominatesNonStrict(solution_a, solution_b) ==
    solution_a[1] <= solution_b[1] /\ solution_a[2] >= solution_b[2]

\* dominates(solution_a, solution_b): f1 minimised, f2 maximised
dominates(solution_a, solution_b) ==
    LET f1_better == solution_a[1] <= solution_b[1]
        f2_better == solution_a[2] >= solution_b[2]
        f1_strictly_better == solution_a[1] < solution_b[1]
        f2_strictly_better == solution_a[2] > solution_b[2]
    IN  (f1_better /\ f2_better) /\ (f1_strictly_better \/ f2_strictly_better)

ParetoIdle ==
    /\ pareto_pc = "idle"
    /\ solutions = <<>>
    /\ i_idx = 0
    /\ j_idx = 0
    /\ is_dominated = FALSE
    /\ non_dominated = <<>>
    /\ dominated = <<>>
    /\ dominated_indices = <<>>

\* entry: the three lists are created empty, the outer loop is about to start
ParetoCall ==
    /\ pareto_pc = "outer"
    /\ solutions \in ParetoInputs
    /\ i_idx = 1
    /\ j_idx = 0
    /\ is_dominated = FALSE
    /\ non_dominated = <<>>
    /\ dominated = <<>>
    /\ dominated_indices = <<>>

\* for i, sol_a in enumerate(solutions): is_dominated = False
OuterNext ==
    /\ pareto_pc = "outer"
    /\ i_idx <= Len(solutions)
    /\ is_dominated' = FALSE
    /\ j_idx' = 1
    /\ pareto_pc' = "inner"
    /\ UNCHANGED <<solutions, i_idx, non_dominated, dominated, dominated_indices>>
    /\ UNCHANGED <<norm_vars, drv_vars, later_vars>>

\* an inner loop without the break: the last comparison overwrites the flag
InnerStepLastWins ==
    /\ pareto_pc = "inner"
    /\ j_idx <= Len(solutions)
    /\ is_dominated' = (i_idx # j_idx /\ dominates(solutions[j_idx], solutions[i_idx]))
    /\ j_idx' = j_idx + 1
    /\ UNCHANGED <<pareto_pc, solutions, i_idx, non_dominated, dominated, dominated_indices>>
    /\ UNCHANGED <<norm_vars, drv_vars, later_vars>>

\* for j, sol_b in enumerate(solutions): if i != j and dominates(sol_b, sol_a): break
InnerStep ==
    /\ pareto_pc = "inner"
    /\ j_idx <= Len(solutions)
    /\ IF i_idx # j_idx /\ dominates(solutions[j_idx], solutions[i_idx])
         THEN /\ is_dominated' = TRUE
              /\ pareto_pc' = "classify"
              /\ UNCHANGED j_idx
         ELSE /\ j_idx' = j_idx + 1
              /\ UNCHANGED <<is_dominated, pareto_pc>>
    /\ UNCHANGED <<solutions, i_idx, non_dominated, dominated, dominated_indices>>
    /\ UNCHANGED <<norm_vars, drv_vars, later_vars>>

\* the inner loop ran out without a break
InnerExhausted ==
    /\ pareto_pc = "inner"
    /\ j_idx > Len(solutions)
    /\ pareto_pc' = "classify"
    /\ UNCHANGED <<solutions, i_idx, j_idx, is_dominated, non_dominated,
                   dominated, dominated_indices>>
    /\ UNCHANGED <<norm_vars, drv_vars, later_vars>>

\* a classification that drops a dominated solution instead of recording it
ClassifyDropsDominated ==
    /\ pareto_pc = "classify"
    /\ IF is_dominated
         THEN UNCHANGED <<dominated, dominated_indices, non_dominated>>
         ELSE /\ non_dominated' = Append(non_dominated, solutions[i_idx])
              /\ UNCHANGED <<dominated, dominated_indices>>
    /\ i_idx' = i_idx + 1
    /\ pareto_pc' = "outer"
    /\ UNCHANGED <<solutions, j_idx, is_dominated>>
    /\ UNCHANGED <<norm_vars, drv_vars, later_vars>>

\* if is_dominated: dominated.append(sol_a) ... else: non_dominated.append(sol_a)
Classify ==
    /\ pareto_pc = "classify"
    /\ IF is_dominated
         THEN /\ dominated' = Append(dominated, solutions[i_idx])
              /\ dominated_indices' = Append(dominated_indices, i_idx)
              /\ UNCHANGED non_dominated
         ELSE /\ non_dominated' = Append(non_dominated, solutions[i_idx])
              /\ UNCHANGED <<dominated, dominated_indices>>
    /\ i_idx' = i_idx + 1
    /\ pareto_pc' = "outer"
    /\ UNCHANGED <<solutions, j_idx, is_dominated>>
    /\ UNCHANGED <<norm_vars, drv_vars, later_vars>>

\* return np.array(non_dominated), np.array(dominated)
ParetoReturn ==
    /\ pareto_pc = "outer"
    /\ i_idx > Len(solutions)
    /\ pareto_pc' = "done"
    /\ UNCHANGED <<solutions, i_idx, j_idx, is_dominated, non_dominated,
                   dominated, dominated_indices>>
    /\ UNCHANGED <<norm_vars, drv_vars, later_vars>>

\* ---------------------------------------------------------------- floats
NaN == [nan |-> TRUE, v |-> 0]

Num(x) == [nan |-> FALSE, v |-> x]

IsNaN(f) == f.nan

IsFinite(f) == ~f.nan

\* Python's ==, >=, <= on floats: false as soon as one side is NaN
FEq(a, b) == ~a.nan /\ ~b.nan /\ a.v = b.v

FGe(a, b) == ~a.nan /\ ~b.nan /\ a.v >= b.v

FLe(a, b) == ~a.nan /\ ~b.nan /\ a.v <= b.v

Abs(x) == IF x < 0 THEN -x ELSE x

RECURSIVE Sum(_)
Sum(s) == IF s = <<>> THEN 0 ELSE Head(s) + Sum(Tail(s))

\* np.std(x, ddof=1).  For one observation numpy divides 0 by 0 and returns
\* NaN.  Otherwise the value kept is n^2 * (sum of squared deviations), which
\* is zero exactly when the standard deviation is: the code only tests
\* std == 0 and divides by std.
Std(x) ==
    LET n == Len(x)
    IN  IF n <= 1 THEN NaN
        ELSE Num(Sum([k \in 1..n |-> (n * x[k] - Sum(x)) * (n * x[k] - Sum(x))]))

\* ---------------------------------------------------------------- samples
\* a sample of n observations, all equal to 1, or with the last one 2
Sample(n, varied) == [k \in 1..n |-> IF varied /\ k = n THEN 2 ELSE 1]

Samples == {Sample(n, varied) : n \in 0..MaxN, varied \in BOOLEAN}

AllIdentical(x) == \A k, m \in 1..Len(x) : x[k] = x[m]

GroupNames == <<"g1", "g2", "g3", "g4">>

GroupInputs == SeqsUpTo(Samples, MaxGroups)

\* dict assignment d[key] = value
DictPut(d, key, value) ==
    [x \in DOMAIN d \cup {key} |-> IF x = key THEN value ELSE d[x]]

\* -------------------------------------------------------- scipy outcomes
RoutineRaised == [raised |-> TRUE]

\* stats.kstest(standardized, 'norm') on finite data: (statistic, p_value)
KsFinite ==
    { [raised |-> FALSE, statistic |-> Num(120), p_value |-> Num(800000)],
      [raised |-> FALSE, statistic |-> Num(300), p_value |-> Num(50000)],
      [raised |-> FALSE, statistic |-> Num(600), p_value |-> Num(20000)] }

\* on data standardized with a NaN std every value is NaN and so is the result
KsOfNaN == [raised |-> FALSE, statistic |-> NaN, p_value |-> NaN]

KsOutcomes(std) == IF IsNaN(std) THEN {KsOfNaN} ELSE KsFinite \cup {RoutineRaised}

\* result.significance_level of stats.anderson, [15, 10, 5, 2.5, 1] percent
SignificanceLevels == <<150000, 100000, 50000, 25000, 10000>>

\* result.critical_values, in the order of the levels above
CriticalValues == <<576, 656, 787, 918, 1092>>

AdStatistics == {300, 576, 600, 700, 787, 800, 1000, 1092, 1200}

AdOutcomes ==
    { [raised |-> FALSE, statistic |-> st, critical_values |-> CriticalValues,
       significance_level |-> SignificanceLevels] : st \in AdStatistics }
    \cup {RoutineRaised}

\* -------------------------------------------- kolmogorov_smirnov_test.py
KS_MIN_N == 3

ks_too_small(x) == Len(x) < KS_MIN_N

\* perform_kolmogorov_smirnov_test(data, significance_level); `routine` is
\* what stats.kstest answers if the function gets to call it
perform_kolmogorov_smirnov_test(x, alpha, routine) ==
    LET n == Len(x)
        std == Std(x)
    IN  IF ks_too_small(x)
          THEN [statistic |-> NaN, p_value |-> NaN, normal |-> FALSE,
                std |-> std, n |-> n, note |-> "insufficient"]
        ELSE IF FEq(std, Num(0))
          THEN [statistic |-> NaN, p_value |-> NaN, normal |-> FALSE,
                std |-> std, n |-> n, note |-> "std0"]
        ELSE IF routine.raised
          THEN [statistic |-> NaN, p_value |-> NaN, normal |-> FALSE,
                std |-> std, n |-> n, note |-> "error"]
        ELSE [statistic |-> routine.statistic, p_value |-> routine.p_value,
              normal |-> FGe(routine.p_value, Num(alpha)),
              std |-> std, n |-> n, significance_level |-> alpha]

\* whether the function gets to stats.kstest
ks_calls_routine(x) == ~ks_too_small(x) /\ ~FEq(Std(x), Num(0))

\* KS step of the single-sample script: the whole call
KSTest ==
    /\ method = "KS"
    /\ norm_pc = "call"
    /\ IF ks_calls_routine(data)
         THEN \E routine \in KsOutcomes(Std(data)) :
                /\ ks_result' = perform_kolmogorov_smirnov_test(data, significance_level, routine)
                /\ stat_calls' = Append(stat_calls, [fn |-> "kstest", n |-> Len(data)])
         ELSE /\ ks_result' = perform_kolmogorov_smirnov_test(data, significance_level, RoutineRaised)
              /\ UNCHANGED stat_calls
    /\ norm_pc' = "done"
    /\ UNCHANGED <<method, significance_level, data, groups, group_names, valid_groups,
                   valid_names, gi, results, all_normal, norm_ret>>
    /\ UNCHANGED <<pareto_vars, drv_vars, later_vars>>

\* ---------------------------------------------- anderson_darling_test.py
AD_MIN_N == 8

\* the 5% level whatever alpha is asked for
FivePercentLevel(levels, alpha) == 3

\* index of the tabulated level nearest to alpha (the first one on a tie)
NearestLevel(levels, alpha) ==
    CHOOSE i \in 1..Len(levels) :
        /\ \A m \in 1..Len(levels) : Abs(levels[i] - alpha) <= Abs(levels[m] - alpha)
        /\ \A m \in 1..(i - 1) : Abs(levels[m] - alpha) > Abs(levels[i] - alpha)

\* the approximate p-value carried on past the table instead of clamped
ad_p_value_extrapolated(statistic, critical_values, levels, actual_alpha) ==
    LET last == Len(critical_values)
    IN  IF statistic <= critical_values[last]
          THEN levels[last] - (critical_values[last] - statistic)
          ELSE levels[1] + (statistic - critical_values[last])

\* the approximate p-value: clamped at both ends, interpolated in between
ad_p_value(statistic, critical_values, levels, actual_alpha) ==
    LET last == Len(critical_values)
        hits == {i \in 1..(last - 1) :
                    critical_values[i + 1] <= statistic /\ statistic <= critical_values[i]}
    IN  IF statistic <= critical_values[last] THEN 10000
        ELSE IF statistic >= critical_values[1] THEN 150000
        ELSE IF hits = {} THEN actual_alpha
        ELSE LET i == CHOOSE h \in hits : \A g \in hits : h <= g
                 alpha1 == levels[i]
                 alpha2 == levels[i + 1]
                 cv1 == critical_values[i]
                 cv2 == critical_values[i + 1]
             IN  IF cv1 # cv2
                   THEN alpha2 + ((statistic - cv2) * (alpha1 - alpha2)) \div (cv1 - cv2)
                   ELSE alpha1

\* a too-small group that leaves the verdict alone
ad_insufficient_no_vote(group, all_n) ==
    [result |-> [statistic |-> NaN, critical_value |-> NaN, p_value |-> NaN,
                 normal |-> FALSE, std |-> Std(group), n |-> Len(group),
                 note |-> "insufficient"],
     all_normal |-> all_n,
     called |-> FALSE]

\* if n < 8: ... all_normal = False; continue
ad_insufficient(group, all_n) ==
    [result |-> [statistic |-> NaN, critical_value |-> NaN, p_value |-> NaN,
                 normal |-> FALSE, std |-> Std(group), n |-> Len(group),
                 note |-> "insufficient"],
     all_normal |-> FALSE,
     called |-> FALSE]

\* if std == 0: ... all_normal = False; continue
ad_degenerate(group, all_n) ==
    [result |-> [statistic |-> NaN, critical_value |-> NaN, p_value |-> NaN,
                 normal |-> FALSE, std |-> Std(group), n |-> Len(group),
                 note |-> "std0"],
     all_normal |-> FALSE,
     called |-> FALSE]

\* except Exception as e: ... all_normal = False
ad_failed(group, all_n) ==
    [result |-> [statistic |-> NaN, critical_value |-> NaN, p_value |-> NaN,
                 normal |-> FALSE, std |-> Std(group), n |-> Len(group),
                 note |-> "error"],
     all_normal |-> FALSE,
     called |-> TRUE]

\* the try block once stats.anderson has answered
ad_tested(group, alpha, routine, all_n) ==
    LET statistic == routine.statistic
        critical_values == routine.critical_values
        significance_levels == routine.significance_level
        idx == NearestLevel(significance_levels, alpha)
        critical_value_actual == critical_values[idx]
        actual_alpha == significance_levels[idx]
        is_normal == statistic <= critical_value_actual
        p_value == ad_p_value(statistic, critical_values, significance_levels, actual_alpha)
    IN  [result |-> [statistic |-> Num(statistic),
                     critical_value |-> Num(critical_value_actual),
                     critical_alpha |-> actual_alpha,
                     p_value |-> Num(p_value),
                     normal |-> is_normal,
                     std |-> Std(group), n |-> Len(group)],
         all_normal |-> IF ~is_normal THEN FALSE ELSE all_n,
         called |-> TRUE]

ad_calls_routine(group) == ~(Len(group) < AD_MIN_N) /\ ~FEq(Std(group), Num(0))

\* one iteration of the loop of perform_anderson_darling_test
ad_group(group, alpha, routine, all_n) ==
    IF Len(group) < AD_MIN_N THEN ad_insufficient(group, all_n)
    ELSE IF FEq(Std(group), Num(0)) THEN ad_degenerate(group, all_n)
    ELSE IF routine.raised THEN ad_failed(group, all_n)
    ELSE ad_tested(group, alpha, routine, all_n)

\* ----------------------------------- anova_test.py: normality per group
ANOVA_ALPHA == 50000

\* if std == 0: ... all_normal = False
anova_ks_degenerate(group, all_n) ==
    [result |-> [statistic |-> NaN, p_value |-> NaN, normal |-> FALSE,
                 std |-> Std(group), n |-> Len(group), note |-> "std0"],
     all_normal |-> FALSE,
     called |-> FALSE]

\* a tested group whose verdict never reaches the aggregate
anova_ks_tested_no_vote(group, routine, all_n) ==
    [result |-> [statistic |-> routine.statistic, p_value |-> routine.p_value,
                 normal |-> FGe(routine.p_value, Num(ANOVA_ALPHA)),
                 std |-> Std(group), n |-> Len(group)],
     all_normal |-> all_n,
     called |-> TRUE]

\* else: kstest; is_normal = p_value >= alpha; if not is_normal: all_normal = False
anova_ks_tested(group, routine, all_n) ==
    LET is_normal == FGe(routine.p_value, Num(ANOVA_ALPHA))
    IN  [result |-> [statistic |-> routine.statistic, p_value |-> routine.p_value,
                     normal |-> is_normal,
                     std |-> Std(group), n |-> Len(group)],
         all_normal |-> IF ~is_normal THEN FALSE ELSE all_n,
         called |-> TRUE]

anova_ks_calls_routine(group) == ~FEq(Std(group), Num(0))

\* one iteration of the loop of perform_normality_test_ks
anova_ks_group(group, routine, all_n) ==
    IF FEq(Std(group), Num(0)) THEN anova_ks_degenerate(group, all_n)
    ELSE anova_ks_tested(group, routine, all_n)

\* ------------------------------- the two group-level normality functions
NormIdle ==
    /\ method = "none"
    /\ significance_level = 0
    /\ data = <<>>
    /\ ks_result = <<>>
    /\ groups = <<>>
    /\ group_names = <<>>
    /\ valid_groups = <<>>
    /\ valid_names = <<>>
    /\ gi = 0
    /\ results = <<>>
    /\ all_normal = TRUE
    /\ norm_pc = "idle"
    /\ norm_ret = <<>>
    /\ stat_calls = <<>>

KsAlphas == {50000, 10000}

\* 0.125 is as far from the 15% level as from the 10% one
AdAlphas == {50000, 10000, 120000, 125000}

\* the single-sample KS script is handed a non-empty sample
KSCall ==
    /\ method = "KS"
    /\ significance_level \in KsAlphas
    /\ data \in Samples \ {<<>>}
    /\ ks_result = <<>>
    /\ groups = <<>>
    /\ group_names = <<>>
    /\ valid_groups = <<>>
    /\ valid_names = <<>>
    /\ gi = 0
    /\ results = <<>>
    /\ all_normal = TRUE
    /\ norm_pc = "call"
    /\ norm_ret = <<>>
    /\ stat_calls = <<>>

\* a group-level function is called with groups and as many distinct names
GroupCall ==
    /\ method \in {"AD", "ANOVA_KS"}
    /\ significance_level \in (IF method = "AD" THEN AdAlphas ELSE {ANOVA_ALPHA})
    /\ data = <<>>
    /\ ks_result = <<>>
    /\ groups \in GroupInputs
    /\ group_names = SubSeq(GroupNames, 1, Len(groups))
    /\ valid_groups = <<>>
    /\ valid_names = <<>>
    /\ gi = 0
    /\ results = <<>>
    /\ all_normal = TRUE
    /\ norm_pc = "filter"
    /\ norm_ret = <<>>
    /\ stat_calls = <<>>

\* the indices of the non-empty groups, in order
RECURSIVE ValidIdx(_, _)
ValidIdx(gs, k) ==
    IF k > Len(gs) THEN <<>>
    ELSE IF Len(gs[k]) > 0 THEN <<k>> \o ValidIdx(gs, k + 1)
    ELSE ValidIdx(gs, k + 1)

\* the filter of empty groups without the check that some group is left
FilterGroupsNoCheck ==
    /\ norm_pc = "filter"
    /\ LET idx == ValidIdx(groups, 1)
       IN  /\ valid_groups' = [k \in 1..Len(idx) |-> groups[idx[k]]]
           /\ valid_names' = [k \in 1..Len(idx) |-> group_names[idx[k]]]
    /\ results' = <<>>
    /\ all_normal' = TRUE
    /\ gi' = 1
    /\ norm_pc' = "loop"
    /\ UNCHANGED norm_ret
    /\ UNCHANGED <<method, significance_level, data, ks_result, groups, group_names,
                   stat_calls>>
    /\ UNCHANGED <<pareto_vars, drv_vars, later_vars>>

\* the filter of empty groups and the check that some group is left
FilterGroups ==
    /\ norm_pc = "filter"
    /\ LET idx == ValidIdx(groups, 1)
       IN  /\ valid_groups' = [k \in 1..Len(idx) |-> groups[idx[k]]]
           /\ valid_names' = [k \in 1..Len(idx) |-> group_names[idx[k]]]
           /\ IF Len(idx) = 0
                THEN /\ norm_ret' = [error |-> "no valid groups"]
                     /\ norm_pc' = "done"
                     /\ UNCHANGED <<gi, results, all_normal>>
                ELSE /\ results' = <<>>
                     /\ all_normal' = TRUE
                     /\ gi' = 1
                     /\ norm_pc' = "loop"
                     /\ UNCHANGED norm_ret
    /\ UNCHANGED <<method, significance_level, data, ks_result, groups, group_names,
                   stat_calls>>
    /\ UNCHANGED <<pareto_vars, drv_vars, later_vars>>

\* for group, name in zip(valid_groups, valid_names): (Anderson-Darling)
ADGroupStep ==
    /\ method = "AD"
    /\ norm_pc = "loop"
    /\ gi <= Len(valid_groups)
    /\ LET group == valid_groups[gi]
           name == valid_names[gi]
       IN  \E routine \in (IF ad_calls_routine(group) THEN AdOutcomes ELSE {RoutineRaised}) :
              LET step == ad_group(group, significance_level, routine, all_normal)
              IN  /\ results' = DictPut(results, name, step.result)
                  /\ all_normal' = step.all_normal
                  /\ stat_calls' = IF step.called
                                     THEN Append(stat_calls, [fn |-> "anderson", n |-> Len(group)])
                                     ELSE stat_calls
    /\ gi' = gi + 1
    /\ UNCHANGED <<method, significance_level, data, ks_result, groups, group_names,
                   valid_groups, valid_names, norm_pc, norm_ret>>
    /\ UNCHANGED <<pareto_vars, drv_vars, later_vars>>

\* for group, name in zip(valid_groups, valid_names): (KS of anova_test.py);
\* the call of stats.kstest is not guarded, an exception leaves the function
AnovaKSGroupStep ==
    /\ method = "ANOVA_KS"
    /\ norm_pc = "loop"
    /\ gi <= Len(valid_groups)
    /\ LET group == valid_groups[gi]
           name == valid_names[gi]
       IN  \E routine \in (IF anova_ks_calls_routine(group) THEN KsOutcomes(Std(group))
                                                            ELSE {KsOfNaN}) :
              IF anova_ks_calls_routine(group) /\ routine.raised
                THEN /\ stat_calls' = Append(stat_calls, [fn |-> "kstest", n |-> Len(group)])
                     /\ norm_pc' = "raised"
                     /\ UNCHANGED <<results, all_normal, gi>>
                ELSE LET step == anova_ks_group(group, routine, all_normal)
                     IN  /\ stat_calls' = IF step.called
                                            THEN Append(stat_calls, [fn |-> "kstest", n |-> Len(group)])
                                            ELSE stat_calls
                         /\ results' = DictPut(results, name, step.result)
                         /\ all_normal' = step.all_normal
                         /\ gi' = gi + 1
                         /\ UNCHANGED norm_pc
    /\ UNCHANGED <<method, significance_level, data, ks_result, groups, group_names,
                   valid_groups, valid_names, norm_ret>>
    /\ UNCHANGED <<pareto_vars, drv_vars, later_vars>>

\* return {'metric', 'alpha', 'groups', 'test_results', 'all_groups_normal'}
NormReturn ==
    /\ norm_pc = "loop"
    /\ gi > Len(valid_groups)
    /\ norm_ret' = [alpha |-> significance_level, groups |-> valid_names,
                    test_results |-> results, all_groups_normal |-> all_normal]
    /\ norm_pc' = "done"
    /\ UNCHANGED <<method, significance_level, data, ks_result, groups, group_names,
                   valid_groups, valid_names, gi, results, all_normal, stat_calls>>
    /\ UNCHANGED <<pareto_vars, drv_vars, later_vars>>

\* --------------------------------------- anova_test.py: the omnibus test
\* stats.f_oneway(*valid_groups): (F, p); with one observation per group the
\* within-group variance has no degrees of freedom and both are NaN
FOneWayOfSingletons == [raised |-> FALSE, f_statistic |-> NaN, p_value |-> NaN]

FOneWayFinite ==
    { [raised |-> FALSE, f_statistic |-> Num(9000), p_value |-> Num(10000)],
      [raised |-> FALSE, f_statistic |-> Num(500), p_value |-> Num(600000)] }

FOneWayOutcomes(gs) ==
    IF \A k \in 1..Len(gs) : Len(gs[k]) = 1
      THEN {FOneWayOfSingletons}
      ELSE FOneWayFinite \cup {RoutineRaised}

SeqMin(x) == CHOOSE v \in Range(x) : \A w \in Range(x) : v <= w

SeqMax(x) == CHOOSE v \in Range(x) : \A w \in Range(x) : v >= w

\* Python's p_value < alpha on floats
FLt(a, b) == ~a.nan /\ ~b.nan /\ a.v < b.v

anova_calls_routine(gs) == Len(ValidIdx(gs, 1)) >= 2

\* perform_one_way_anova(groups, group_names, metric_name) once f_oneway has
\* answered `routine` (not read when fewer than 2 groups are valid)
perform_one_way_anova(gs, names, routine) ==
    LET idx == ValidIdx(gs, 1)
        v_groups == [k \in 1..Len(idx) |-> gs[idx[k]]]
        v_names == [k \in 1..Len(idx) |-> names[idx[k]]]
    IN  IF Len(v_groups) < 2
          THEN [error |-> "fewer than 2 valid groups"]
          ELSE [f_statistic |-> routine.f_statistic,
                p_value |-> routine.p_value,
                significant |-> FLt(routine.p_value, Num(ANOVA_ALPHA)),
                alpha |-> ANOVA_ALPHA,
                groups |-> v_names,
                descriptive_stats |->
                    [nm \in Range(v_names) |->
                        LET g == v_groups[CHOOSE k \in 1..Len(v_names) : v_names[k] = nm]
                        IN  [n |-> Len(g), std |-> Std(g), min |-> SeqMin(g), max |-> SeqMax(g)]]]

\* ------------------------------ anova_test.py: analyze_by_configuration
Params == <<"POB", "CRU", "MUT">>

Metrics == <<"mejor_asignaciones", "mejor_separacion", "tiempo_ms">>

Units == Params \o Metrics

HvRows == [POB : {50, 100}, CRU : {6}, MUT : {1}, HV : {1, 2}]

FileNames == <<"evolucion_1.csv", "evolucion_2.csv", "evolucion_3.csv", "evolucion_4.csv">>

\* extract_final_metrics: one row per file of evolution data (its last generation)
FinalMetricsOf(nfiles) ==
    [k \in 1..nfiles |-> [archivo |-> FileNames[k], mejor_asignaciones |-> 1,
                          mejor_separacion |-> 1, tiempo_ms |-> 1]]

\* df[col].unique(): the values of a column in order of first appearance
RECURSIVE Unique(_, _, _)
Unique(df, col, k) ==
    IF k > Len(df) THEN <<>>
    ELSE IF \E m \in 1..(k - 1) : df[m][col] = df[k][col] THEN Unique(df, col, k + 1)
    ELSE <<df[k][col]>> \o Unique(df, col, k + 1)

\* df[df[col] == value][field].values
RECURSIVE Subset(_, _, _, _, _)
Subset(df, col, value, field, k) ==
    IF k > Len(df) THEN <<>>
    ELSE IF df[k][col] = value THEN <<df[k][field]>> \o Subset(df, col, value, field, k + 1)
    ELSE Subset(df, col, value, field, k + 1)

HasColumn(df, col) == df # <<>> /\ col \in DOMAIN df[1]

\* the groups and names analyze_by_configuration builds for a unit: one group
\* per value of the parameter (HV column), or per file (the metric's column)
UnitTable(unit) == IF unit \in Range(Params) THEN hypervolume_df ELSE final_metrics

UnitColumn(unit) == IF unit \in Range(Params) THEN unit ELSE "archivo"

UnitField(unit) == IF unit \in Range(Params) THEN "HV" ELSE unit

UnitValues(unit) ==
    IF HasColumn(UnitTable(unit), IF unit \in Range(Params) THEN unit ELSE UnitField(unit))
      THEN Unique(UnitTable(unit), UnitColumn(unit), 1)
      ELSE <<>>

UnitGroups(unit) ==
    [k \in 1..Len(UnitValues(unit)) |->
        Subset(UnitTable(unit), UnitColumn(unit), UnitValues(unit)[k], UnitField(unit), 1)]

UnitGroupNames(unit) ==
    [k \in 1..Len(UnitValues(unit)) |->
        IF unit \in Range(Params) THEN <<unit, UnitValues(unit)[k]>> ELSE UnitValues(unit)[k]]

DriverIdle ==
    /\ drv_pc = "idle"
    /\ hypervolume_df = <<>>
    /\ final_metrics = <<>>
    /\ unit_idx = 0
    /\ anova_results = <<>>
    /\ normality_results = <<>>
    /\ omnibus_calls = <<>>

\* analyze_by_configuration is entered with the two loaded tables
DriverCall ==
    /\ drv_pc = "start"
    /\ hypervolume_df \in SeqsUpTo(HvRows, MaxRows)
    /\ final_metrics \in {FinalMetricsOf(nf) : nf \in 0..MaxFiles}
    /\ unit_idx = 0
    /\ anova_results = <<>>
    /\ normality_results = <<>>
    /\ omnibus_calls = <<>>

\* if not has_hypervolume and not has_evolution: return ({'error': ...}, {})
DriverStart ==
    /\ drv_pc = "start"
    /\ IF hypervolume_df = <<>> /\ final_metrics = <<>>
         THEN /\ anova_results' = [error |-> "no data"]
              /\ drv_pc' = "done"
              /\ UNCHANGED unit_idx
         ELSE /\ unit_idx' = 1
              /\ drv_pc' = "units"
              /\ UNCHANGED anova_results
    /\ UNCHANGED <<hypervolume_df, final_metrics, normality_results, omnibus_calls>>
    /\ UNCHANGED <<pareto_vars, norm_vars, later_vars>>

\* a parameter or metric with fewer than 2 groups is passed over
UnitSkip ==
    /\ drv_pc = "units"
    /\ unit_idx <= Len(Units)
    /\ Len(UnitGroups(Units[unit_idx])) < 2
    /\ unit_idx' = unit_idx + 1
    /\ UNCHANGED <<drv_pc, hypervolume_df, final_metrics, anova_results,
                   normality_results, omnibus_calls>>
    /\ UNCHANGED <<pareto_vars, norm_vars, later_vars>>

\* if len(groups) >= 2: perform_normality_test_ks(groups, group_names, ...) is called
UnitNormality ==
    /\ drv_pc = "units"
    /\ unit_idx <= Len(Units)
    /\ Len(UnitGroups(Units[unit_idx])) >= 2
    /\ drv_pc' = "in_norm"
    /\ method' = "ANOVA_KS"
    /\ significance_level' = ANOVA_ALPHA
    /\ groups' = UnitGroups(Units[unit_idx])
    /\ group_names' = UnitGroupNames(Units[unit_idx])
    /\ valid_groups' = <<>>
    /\ valid_names' = <<>>
    /\ gi' = 0
    /\ results' = <<>>
    /\ all_normal' = TRUE
    /\ norm_pc' = "filter"
    /\ norm_ret' = <<>>
    /\ UNCHANGED <<data, ks_result, stat_calls>>
    /\ UNCHANGED <<unit_idx, hypervolume_df, final_metrics, anova_results,
                   normality_results, omnibus_calls>>
    /\ UNCHANGED <<pareto_vars, later_vars>>

\* normality_results[key] = <the returned dict>; results[key] =
\* perform_one_way_anova(groups, group_names, ...): the ANOVA is run whatever
\* the normality verdict was; an exception of f_oneway leaves the function
UnitAnova ==
    /\ drv_pc = "in_norm"
    /\ norm_pc = "done"
    /\ normality_results' = DictPut(normality_results, Units[unit_idx], norm_ret)
    /\ IF anova_calls_routine(groups)
         THEN \E routine \in FOneWayOutcomes(groups) :
                /\ omnibus_calls' = Append(omnibus_calls, [key |-> Units[unit_idx], fn |-> "f_oneway"])
                /\ IF routine.raised
                     THEN /\ drv_pc' = "raised"
                          /\ UNCHANGED <<anova_results, unit_idx>>
                     ELSE /\ anova_results' = DictPut(anova_results, Units[unit_idx],
                                                      perform_one_way_anova(groups, group_names, routine))
                          /\ unit_idx' = unit_idx + 1
                          /\ drv_pc' = "units"
         ELSE /\ anova_results' = DictPut(anova_results, Units[unit_idx],
                                          perform_one_way_anova(groups, group_names, RoutineRaised))
              /\ unit_idx' = unit_idx + 1
              /\ drv_pc' = "units"
              /\ UNCHANGED omnibus_calls
    /\ UNCHANGED <<hypervolume_df, final_metrics>>
    /\ UNCHANGED <<pareto_vars, norm_vars, later_vars>>

\* an exception of stats.kstest inside perform_normality_test_ks leaves
\* analyze_by_configuration too
UnitNormalityRaised ==
    /\ drv_pc = "in_norm"
    /\ norm_pc = "raised"
    /\ drv_pc' = "raised"
    /\ UNCHANGED <<unit_idx, hypervolume_df, final_metrics, anova_results,
                   normality_results, omnibus_calls>>
    /\ UNCHANGED <<pareto_vars, norm_vars, later_vars>>

\* return results, normality_results
DriverReturn ==
    /\ drv_pc = "units"
    /\ unit_idx > Len(Units)
    /\ drv_pc' = "done"
    /\ UNCHANGED <<unit_idx, hypervolume_df, final_metrics, anova_results,
                   normality_results, omnibus_calls>>
    /\ UNCHANGED <<pareto_vars, norm_vars, later_vars>>

\* ------------------ kruskal_wallis_test.py: omnibus and post-hoc tests
\* float * int and Python's min(a, b), which returns b only when b < a
FMul(a, n) == IF a.nan THEN NaN ELSE Num(a.v * n)

FMin(a, b) == IF FLt(b, a) THEN b ELSE a

One == Num(1000000)

\* the samples handed to the omnibus and post-hoc functions
PhSamples == {<<>>, <<1>>, <<1, 2>>}

PhNames == <<"a", "b", "c", "d", "e">>

\* dicts name -> data with 1..MaxPhGroups keys, keys in insertion order
PhGroupInputs ==
    UNION {[{PhNames[k] : k \in 1..n} -> PhSamples] : n \in 1..MaxPhGroups}

KeysOf(gd) == SelectSeq(PhNames, LAMBDA nm : nm \in DOMAIN gd)

PhAlphas == {50000, 10000}

Corrections == {"bonferroni", "holm", "fdr_bh", "None"}

\* kruskal(*valid_groups): (H, p) or an exception
KruskalOutcomes ==
    { RoutineRaised,
      [raised |-> FALSE, statistic |-> Num(9000), p_value |-> Num(5000)],
      [raised |-> FALSE, statistic |-> Num(500), p_value |-> Num(600000)] }

\* mannwhitneyu(data1, data2, alternative='two-sided'): (U, p) or an exception
MannWhitneyOutcomes ==
    { RoutineRaised,
      [raised |-> FALSE, statistic |-> Num(0), p_value |-> Num(2000)],
      [raised |-> FALSE, statistic |-> Num(1000), p_value |-> Num(20000)],
      [raised |-> FALSE, statistic |-> Num(2000), p_value |-> Num(400000)] }

\* the names of the non-empty groups, in order
ValidNames(gd, names) == SelectSeq(names, LAMBDA nm : Len(gd[nm]) > 0)

kruskal_calls_routine(gd, names) == Len(ValidNames(gd, names)) >= 2

\* perform_kruskal_wallis_test(groups_data, factor_name, alpha) once kruskal
\* has answered `routine` (not read when fewer than 2 groups are valid);
\* names is list(groups_data.keys())
perform_kruskal_wallis_test(gd, names, factor_name, alpha, routine) ==
    LET valid_nm == ValidNames(gd, names)
    IN  IF Len(valid_nm) < 2
          THEN [factor |-> factor_name, statistic |-> NaN, p_value |-> NaN,
                significant |-> FALSE, groups |-> Len(valid_nm),
                note |-> "at least 2 groups are required"]
        ELSE IF routine.raised
          THEN [factor |-> factor_name, statistic |-> NaN, p_value |-> NaN,
                significant |-> FALSE, groups |-> Len(valid_nm),
                note |-> "error in the test"]
        ELSE [factor |-> factor_name, statistic |-> routine.statistic,
              p_value |-> routine.p_value,
              significant |-> FLt(routine.p_value, Num(alpha)),
              groups |-> Len(valid_nm), group_names |-> valid_nm,
              group_stats |-> [nm \in Range(valid_nm) |-> [n |-> Len(gd[nm])]],
              alpha |-> alpha]

\* list(combinations(group_names, 2)): the pairs (i, j), i < j, in
\* lexicographic order of the positions
RECURSIVE CombinationsFrom(_, _, _)
CombinationsFrom(names, i, j) ==
    IF i >= Len(names) THEN <<>>
    ELSE IF j > Len(names) THEN CombinationsFrom(names, i + 1, i + 2)
    ELSE <<(<<names[i], names[j]>>)>> \o CombinationsFrom(names, i, j + 1)

combinations(names) == CombinationsFrom(names, 1, 2)

\* the Bonferroni product without the clamp to 1.0
p_value_corrected_unclamped(p_value, n_comp, corr) ==
    IF corr \in {"bonferroni", "holm"} THEN FMul(p_value, n_comp) ELSE p_value

\* the corrected p-value of perform_posthoc_tests
p_value_corrected(p_value, n_comp, corr) ==
    IF corr = "bonferroni" THEN FMin(FMul(p_value, n_comp), One)
    ELSE IF corr = "holm" THEN FMin(FMul(p_value, n_comp), One)
    ELSE p_value

posthoc_skips(gd, pair) == Len(gd[pair[1]]) = 0 \/ Len(gd[pair[2]]) = 0

\* the record perform_posthoc_tests appends for a pair whose test answered
\* `routine`
posthoc_record(pair, alpha, corr, n_comp, routine) ==
    IF routine.raised
      THEN [group1 |-> pair[1], group2 |-> pair[2], statistic |-> NaN,
            p_value |-> NaN, p_value_corrected |-> NaN, significant |-> FALSE,
            error |-> "exception"]
      ELSE [group1 |-> pair[1], group2 |-> pair[2], statistic |-> routine.statistic,
            p_value |-> routine.p_value,
            p_value_corrected |-> p_value_corrected(routine.p_value, n_comp, corr),
            significant |-> FLt(p_value_corrected(routine.p_value, n_comp, corr), Num(alpha)),
            correction |-> corr]

\* main of kruskal_wallis_test.py: the table of load_hypervolume_data and
\* the factors analysed with --factors all
Factors == <<"crossover", "mutation", "population">>

PhRows == [crossover : {6, 7}, mutation : {1}, population : {50, 100, 200},
           hypervolume : {1}]

\* str(value) of a factor value (crossover in tenths, mutation in thousandths)
StrOf(factor, value) ==
    IF factor = "crossover" THEN (IF value = 6 THEN "0.6" ELSE "0.7")
    ELSE IF factor = "mutation" THEN "0.001"
    ELSE IF value = 50 THEN "50" ELSE IF value = 100 THEN "100" ELSE "200"

\* groups_data of analyze_by_factor: str(value) -> the hypervolumes of the
\* rows with that value, and its keys in insertion order
FactorKeys(df, factor) ==
    LET values == Unique(df, factor, 1)
    IN  [k \in 1..Len(values) |-> StrOf(factor, values[k])]

FactorGroups(df, factor) ==
    LET values == Unique(df, factor, 1)
    IN  [key \in Range(FactorKeys(df, factor)) |->
            LET v == CHOOSE w \in Range(values) : StrOf(factor, w) = key
            IN  Subset(df, factor, v, "hypervolume", 1)]

EmptyDict == <<>>

PostHocIdle ==
    /\ ph_pc = "idle"
    /\ ph_entry = "none"
    /\ ph_df = <<>>
    /\ ph_alpha = 0
    /\ correction = "None"
    /\ factor_idx = 0
    /\ groups_data = EmptyDict
    /\ ph_names = <<>>
    /\ kw_result = EmptyDict
    /\ comparisons = <<>>
    /\ n_comparisons = 0
    /\ pair_idx = 0
    /\ posthoc_results = <<>>
    /\ all_results = <<>>
    /\ ph_calls = <<>>

\* main() has loaded a non-empty table (an empty one ends in sys.exit(1))
KwMainCall ==
    /\ ph_pc = "factors"
    /\ ph_entry = "main"
    /\ ph_df \in SeqsUpTo(PhRows, MaxPhRows) \ {<<>>}
    /\ ph_alpha \in PhAlphas
    /\ correction = "bonferroni"
    /\ factor_idx = 1
    /\ groups_data = EmptyDict
    /\ ph_names = <<>>
    /\ kw_result = EmptyDict
    /\ comparisons = <<>>
    /\ n_comparisons = 0
    /\ pair_idx = 0
    /\ posthoc_results = <<>>
    /\ all_results = <<>>
    /\ ph_calls = <<>>

\* perform_kruskal_wallis_test(groups_data, factor_name, alpha) is called
KruskalCall ==
    /\ ph_pc = "kruskal"
    /\ ph_entry = "kruskal"
    /\ ph_df = <<>>
    /\ ph_alpha \in PhAlphas
    /\ correction = "None"
    /\ factor_idx = 0
    /\ groups_data \in PhGroupInputs
    /\ ph_names = KeysOf(groups_data)
    /\ kw_result = EmptyDict
    /\ comparisons = <<>>
    /\ n_comparisons = 0
    /\ pair_idx = 0
    /\ posthoc_results = <<>>
    /\ all_results = <<>>
    /\ ph_calls = <<>>

\* perform_posthoc_tests(groups_data, group_names, alpha, correction) is called
PostHocCall ==
    /\ ph_pc = "posthoc"
    /\ ph_entry = "posthoc"
    /\ ph_df = <<>>
    /\ ph_alpha \in PhAlphas
    /\ correction \in Corrections
    /\ factor_idx = 0
    /\ groups_data \in PhGroupInputs
    /\ ph_names = KeysOf(groups_data)
    /\ kw_result = EmptyDict
    /\ comparisons = <<>>
    /\ n_comparisons = 0
    /\ pair_idx = 0
    /\ posthoc_results = <<>>
    /\ all_results = <<>>
    /\ ph_calls = <<>>

\* analyze_by_factor running the post-hoc comparisons after every omnibus
\* test that ran, significant or not
AnalyzeByFactorAlwaysPostHoc ==
    /\ ph_pc = "factors"
    /\ factor_idx <= Len(Factors)
    /\ LET factor == Factors[factor_idx]
           gd == FactorGroups(ph_df, factor)
           names == FactorKeys(ph_df, factor)
       IN  /\ groups_data' = gd
           /\ ph_names' = names
           /\ \E routine \in (IF kruskal_calls_routine(gd, names) THEN KruskalOutcomes
                                                                 ELSE {RoutineRaised}) :
                LET result == perform_kruskal_wallis_test(gd, names, factor, ph_alpha, routine)
                IN  /\ ph_calls' = IF kruskal_calls_routine(gd, names)
                                     THEN Append(ph_calls, [fn |-> "kruskal", key |-> factor])
                                     ELSE ph_calls
                    /\ IF "group_names" \in DOMAIN result
                         THEN /\ kw_result' = result
                              /\ comparisons' = combinations(result.group_names)
                              /\ n_comparisons' = Len(combinations(result.group_names))
                              /\ pair_idx' = 1
                              /\ posthoc_results' = <<>>
                              /\ ph_pc' = "pairs"
                              /\ UNCHANGED <<all_results, factor_idx>>
                         ELSE /\ kw_result' = DictPut(result, "posthoc", <<>>)
                              /\ all_results' = Append(all_results, DictPut(result, "posthoc", <<>>))
                              /\ factor_idx' = factor_idx + 1
                              /\ posthoc_results' = <<>>
                              /\ UNCHANGED <<comparisons, n_comparisons, pair_idx, ph_pc>>
    /\ UNCHANGED <<ph_entry, ph_df, ph_alpha, correction>>
    /\ UNCHANGED <<pareto_vars, norm_vars, drv_vars, batch_vars, extra_vars>>

\* analyze_by_factor(df, factor, alpha) up to the call of perform_posthoc_tests:
\* the groups of the factor, the Kruskal-Wallis test, and either the start of
\* the post-hoc loop or result['posthoc'] = [] and the return to main's loop
AnalyzeByFactor ==
    /\ ph_pc = "factors"
    /\ factor_idx <= Len(Factors)
    /\ LET factor == Factors[factor_idx]
           gd == FactorGroups(ph_df, factor)
           names == FactorKeys(ph_df, factor)
       IN  /\ groups_data' = gd
           /\ ph_names' = names
           /\ \E routine \in (IF kruskal_calls_routine(gd, names) THEN KruskalOutcomes
                                                                 ELSE {RoutineRaised}) :
                LET result == perform_kruskal_wallis_test(gd, names, factor, ph_alpha, routine)
                IN  /\ ph_calls' = IF kruskal_calls_routine(gd, names)
                                     THEN Append(ph_calls, [fn |-> "kruskal", key |-> factor])
                                     ELSE ph_calls
                    /\ IF result.significant /\ "group_names" \in DOMAIN result
                         THEN /\ kw_result' = result
                              /\ comparisons' = combinations(result.group_names)
                              /\ n_comparisons' = Len(combinations(result.group_names))
                              /\ pair_idx' = 1
                              /\ posthoc_results' = <<>>
                              /\ ph_pc' = "pairs"
                              /\ UNCHANGED <<all_results, factor_idx>>
                         ELSE /\ kw_result' = DictPut(result, "posthoc", <<>>)
                              /\ all_results' = Append(all_results, DictPut(result, "posthoc", <<>>))
                              /\ factor_idx' = factor_idx + 1
                              /\ posthoc_results' = <<>>
                              /\ UNCHANGED <<comparisons, n_comparisons, pair_idx, ph_pc>>
    /\ UNCHANGED <<ph_entry, ph_df, ph_alpha, correction>>
    /\ UNCHANGED <<pareto_vars, norm_vars, drv_vars, batch_vars, extra_vars>>

\* perform_kruskal_wallis_test called on its own
KruskalDirect ==
    /\ ph_pc = "kruskal"
    /\ \E routine \in (IF kruskal_calls_routine(groups_data, ph_names) THEN KruskalOutcomes
                                                                       ELSE {RoutineRaised}) :
          /\ kw_result' = perform_kruskal_wallis_test(groups_data, ph_names, "factor",
                                                      ph_alpha, routine)
          /\ ph_calls' = IF kruskal_calls_routine(groups_data, ph_names)
                           THEN Append(ph_calls, [fn |-> "kruskal", key |-> "factor"])
                           ELSE ph_calls
    /\ ph_pc' = "done"
    /\ UNCHANGED <<ph_entry, ph_df, ph_alpha, correction, factor_idx, groups_data,
                   ph_names, comparisons, n_comparisons, pair_idx, posthoc_results,
                   all_results>>
    /\ UNCHANGED <<pareto_vars, norm_vars, drv_vars, batch_vars, extra_vars>>

\* perform_posthoc_tests called on its own: comparisons, results, n_comparisons
PostHocStart ==
    /\ ph_pc = "posthoc"
    /\ comparisons' = combinations(ph_names)
    /\ n_comparisons' = Len(combinations(ph_names))
    /\ pair_idx' = 1
    /\ posthoc_results' = <<>>
    /\ ph_pc' = "pairs"
    /\ UNCHANGED <<ph_entry, ph_df, ph_alpha, correction, factor_idx, groups_data,
                   ph_names, kw_result, all_results, ph_calls>>
    /\ UNCHANGED <<pareto_vars, norm_vars, drv_vars, batch_vars, extra_vars>>

\* a pair with an empty group is passed over without a record
PostHocPairSkip ==
    /\ ph_pc = "pairs"
    /\ pair_idx <= Len(comparisons)
    /\ posthoc_skips(groups_data, comparisons[pair_idx])
    /\ pair_idx' = pair_idx + 1
    /\ UNCHANGED <<ph_pc, ph_entry, ph_df, ph_alpha, correction, factor_idx, groups_data,
                   ph_names, kw_result, comparisons, n_comparisons, posthoc_results,
                   all_results, ph_calls>>
    /\ UNCHANGED <<pareto_vars, norm_vars, drv_vars, batch_vars, extra_vars>>

\* for group1, group2 in comparisons: the Mann-Whitney test of the pair, its
\* record, or the record of the exception
PostHocPairStep ==
    /\ ph_pc = "pairs"
    /\ pair_idx <= Len(comparisons)
    /\ ~posthoc_skips(groups_data, comparisons[pair_idx])
    /\ \E routine \in MannWhitneyOutcomes :
          posthoc_results' = Append(posthoc_results,
              posthoc_record(comparisons[pair_idx], ph_alpha, correction, n_comparisons, routine))
    /\ ph_calls' = Append(ph_calls, [fn |-> "mannwhitneyu", key |-> comparisons[pair_idx]])
    /\ pair_idx' = pair_idx + 1
    /\ UNCHANGED <<ph_pc, ph_entry, ph_df, ph_alpha, correction, factor_idx, groups_data,
                   ph_names, kw_result, comparisons, n_comparisons, all_results>>
    /\ UNCHANGED <<pareto_vars, norm_vars, drv_vars, batch_vars, extra_vars>>

\* return results; in analyze_by_factor result['posthoc'] = posthoc_results
\* and the result goes to main's all_results
PostHocReturn ==
    /\ ph_pc = "pairs"
    /\ pair_idx > Len(comparisons)
    /\ IF ph_entry = "main"
         THEN /\ kw_result' = DictPut(kw_result, "posthoc", posthoc_results)
              /\ all_results' = Append(all_results, DictPut(kw_result, "posthoc", posthoc_results))
              /\ factor_idx' = factor_idx + 1
              /\ ph_pc' = "factors"
         ELSE /\ ph_pc' = "done"
              /\ UNCHANGED <<kw_result, all_results, factor_idx>>
    /\ UNCHANGED <<ph_entry, ph_df, ph_alpha, correction, groups_data, ph_names,
                   comparisons, n_comparisons, pair_idx, posthoc_results, ph_calls>>
    /\ UNCHANGED <<pareto_vars, norm_vars, drv_vars, batch_vars, extra_vars>>

\* main: the loop over the factors is over, the results are printed and saved
KwMainReturn ==
    /\ ph_pc = "factors"
    /\ factor_idx > Len(Factors)
    /\ ph_pc' = "done"
    /\ UNCHANGED <<ph_entry, ph_df, ph_alpha, correction, factor_idx, groups_data,
                   ph_names, kw_result, comparisons, n_comparisons, pair_idx,
                   posthoc_results, all_results, ph_calls>>
    /\ UNCHANGED <<pareto_vars, norm_vars, drv_vars, batch_vars, extra_vars>>

\* the groups of a dict as the list the functions of anova_test.py take
GroupList(gd, names) == [k \in 1..Len(names) |-> gd[names[k]]]

\* perform_one_way_anova(groups, group_names, metric_name) is called
AnovaCall ==
    /\ ph_pc = "anova"
    /\ ph_entry = "anova"
    /\ ph_df = <<>>
    /\ ph_alpha = ANOVA_ALPHA
    /\ correction = "None"
    /\ factor_idx = 0
    /\ groups_data \in PhGroupInputs
    /\ ph_names = KeysOf(groups_data)
    /\ kw_result = EmptyDict
    /\ comparisons = <<>>
    /\ n_comparisons = 0
    /\ pair_idx = 0
    /\ posthoc_results = <<>>
    /\ all_results = <<>>
    /\ ph_calls = <<>>

\* perform_one_way_anova called on its own; the call of stats.f_oneway is not
\* guarded, an exception leaves the function
AnovaDirect ==
    /\ ph_pc = "anova"
    /\ LET gs == GroupList(groups_data, ph_names)
       IN  IF anova_calls_routine(gs)
             THEN \E routine \in FOneWayOutcomes(GroupList(groups_data,
                                                 ValidNames(groups_data, ph_names))) :
                    /\ ph_calls' = Append(ph_calls, [fn |-> "f_oneway", key |-> "metric"])
                    /\ IF routine.raised
                         THEN /\ ph_pc' = "raised"
                              /\ UNCHANGED kw_result
                         ELSE /\ kw_result' = perform_one_way_anova(gs, ph_names, routine)
                              /\ ph_pc' = "done"
             ELSE /\ kw_result' = perform_one_way_anova(gs, ph_names, RoutineRaised)
                  /\ ph_pc' = "done"
                  /\ UNCHANGED ph_calls
    /\ UNCHANGED <<ph_entry, ph_df, ph_alpha, correction, factor_idx, groups_data,
                   ph_names, comparisons, n_comparisons, pair_idx, posthoc_results,
                   all_results>>
    /\ UNCHANGED <<pareto_vars, norm_vars, drv_vars, batch_vars, extra_vars>>

\* python/kruskal_wallis.py: what the script finds for a configuration
\* directory: no CSV, a CSV without the Hypervolume column, a CSV without
\* rows, or a CSV with rows
DirStates == {"missing", "nocolumn", "empty", "data"}

\* the script starts; ph_df holds what it will find per configuration
KwScriptCall ==
    /\ ph_pc = "script"
    /\ ph_entry = "script"
    /\ ph_df \in SeqsUpTo(DirStates, MaxPhGroups)
    /\ ph_alpha = ANOVA_ALPHA
    /\ correction = "None"
    /\ factor_idx = 0
    /\ groups_data = EmptyDict
    /\ ph_names = <<>>
    /\ kw_result = EmptyDict
    /\ comparisons = <<>>
    /\ n_comparisons = 0
    /\ pair_idx = 0
    /\ posthoc_results = <<>>
    /\ all_results = <<>>
    /\ ph_calls = <<>>

\* the positions of the directories whose CSV has rows
RECURSIVE LoadedDirs(_, _)
LoadedDirs(dirs, k) ==
    IF k > Len(dirs) THEN <<>>
    ELSE IF dirs[k] = "data" THEN <<k>> \o LoadedDirs(dirs, k + 1)
    ELSE LoadedDirs(dirs, k + 1)

\* the script: load the groups, raise RuntimeError with fewer than 2 groups,
\* else kruskal(*groups) (not guarded) and the printed verdict
KwScriptRun ==
    /\ ph_pc = "script"
    /\ LET loaded == LoadedDirs(ph_df, 1)
       IN  /\ ph_names' = [k \in 1..Len(loaded) |-> PhNames[loaded[k]]]
           /\ groups_data' = [nm \in {PhNames[loaded[k]] : k \in 1..Len(loaded)} |-> <<1>>]
           /\ IF Len(loaded) < 2
                THEN /\ ph_pc' = "raised"
                     /\ UNCHANGED <<kw_result, ph_calls>>
                ELSE \E routine \in KruskalOutcomes :
                       /\ ph_calls' = Append(ph_calls, [fn |-> "kruskal", key |-> "script"])
                       /\ IF routine.raised
                            THEN /\ ph_pc' = "raised"
                                 /\ UNCHANGED kw_result
                            ELSE /\ kw_result' = [statistic |-> routine.statistic,
                                                  p_value |-> routine.p_value,
                                                  significant |-> FLt(routine.p_value, Num(ph_alpha))]
                                 /\ ph_pc' = "done"
    /\ UNCHANGED <<ph_entry, ph_df, ph_alpha, correction, factor_idx, comparisons,
                   n_comparisons, pair_idx, posthoc_results, all_results>>
    /\ UNCHANGED <<pareto_vars, norm_vars, drv_vars, batch_vars, extra_vars>>

\* ------------------------- anova_test.py: the post-hoc functions
\* stats.ttest_ind(a, b): (t, p) or an exception; two groups of one value
\* each leave no degrees of freedom and p is NaN
TTestOutcomes(a, b) ==
    IF Len(a) = 1 /\ Len(b) = 1
      THEN {[raised |-> FALSE, statistic |-> NaN, p_value |-> NaN]}
      ELSE MannWhitneyOutcomes \cup
           { [raised |-> FALSE, statistic |-> Num(1500), p_value |-> Num(v)] :
                 v \in {16666, 16667, 50000} }

\* result.pvalue[i, j] of tukey_hsd
TukeyPValues == {Num(2000), Num(20000), Num(400000)}

\* the quotient 0.05 / n_comparisons is kept to a thousandth of the unit the
\* p-values are given in
QuotientScale == 1000

\* the significance level without the division by the pair count
alpha_uncorrected(n_comp) == ANOVA_ALPHA * QuotientScale

\* alpha_corrected = 0.05 / n_comparisons if n_comparisons > 0 else 0.05
alpha_corrected(n_comp) ==
    IF n_comp > 0 THEN (ANOVA_ALPHA * QuotientScale) \div n_comp
    ELSE ANOVA_ALPHA * QuotientScale

\* p_value < alpha_corrected
below_alpha_corrected(p_value, n_comp) ==
    ~p_value.nan /\ p_value.v * QuotientScale < alpha_corrected(n_comp)

\* the record perform_bonferroni_correction appends for a pair
bonferroni_record(pair, n_comp, routine) ==
    [Grupo_1 |-> pair[1], Grupo_2 |-> pair[2],
     p_value |-> routine.p_value,
     p_value_corregido |-> FMin(FMul(routine.p_value, n_comp), One),
     Significativo |-> below_alpha_corrected(routine.p_value, n_comp)]

\* the record perform_post_hoc_tukey appends for a pair
tukey_record(pair, p_value) ==
    [Grupo_1 |-> pair[1], Grupo_2 |-> pair[2], p_value |-> p_value,
     Significativo |-> FLt(p_value, Num(ANOVA_ALPHA))]

\* perform_bonferroni_correction or perform_post_hoc_tukey is called
AnovaPostHocCall ==
    /\ ph_pc = "anova_posthoc"
    /\ ph_entry \in {"bonferroni", "tukey"}
    /\ ph_df = <<>>
    /\ ph_alpha = ANOVA_ALPHA
    /\ correction = "None"
    /\ factor_idx = 0
    /\ groups_data \in PhGroupInputs
    /\ ph_names = KeysOf(groups_data)
    /\ kw_result = EmptyDict
    /\ comparisons = <<>>
    /\ n_comparisons = 0
    /\ pair_idx = 0
    /\ posthoc_results = <<>>
    /\ all_results = <<>>
    /\ ph_calls = <<>>

\* perform_post_hoc_tukey without scipy's tukey_hsd: the ImportError hands the
\* call to perform_bonferroni_correction
TukeyImportError ==
    /\ ph_pc = "anova_posthoc"
    /\ ph_entry = "tukey"
    /\ ph_entry' = "tukey_fallback"
    /\ UNCHANGED <<ph_pc, ph_df, ph_alpha, correction, factor_idx, groups_data, ph_names,
                   kw_result, comparisons, n_comparisons, pair_idx, posthoc_results,
                   all_results, ph_calls>>
    /\ UNCHANGED <<pareto_vars, norm_vars, drv_vars, batch_vars, extra_vars>>

\* perform_bonferroni_correction: the filter of empty groups, the empty
\* return with fewer than 2 groups, n_comparisons and the pairs i < j
BonferroniStart ==
    /\ ph_pc = "anova_posthoc"
    /\ ph_entry \in {"bonferroni", "tukey_fallback"}
    /\ LET v_names == ValidNames(groups_data, ph_names)
       IN  IF Len(v_names) < 2
             THEN /\ ph_pc' = "done"
                  /\ UNCHANGED <<comparisons, n_comparisons, pair_idx>>
             ELSE /\ comparisons' = combinations(v_names)
                  /\ n_comparisons' = (Len(v_names) * (Len(v_names) - 1)) \div 2
                  /\ pair_idx' = 1
                  /\ ph_pc' = "ttests"
    /\ posthoc_results' = <<>>
    /\ UNCHANGED <<ph_entry, ph_df, ph_alpha, correction, factor_idx, groups_data, ph_names,
                   kw_result, all_results, ph_calls>>
    /\ UNCHANGED <<pareto_vars, norm_vars, drv_vars, batch_vars, extra_vars>>

\* the t-test of a pair (not guarded: an exception leaves the function) and
\* its record
BonferroniPairStep ==
    /\ ph_pc = "ttests"
    /\ pair_idx <= Len(comparisons)
    /\ LET pair == comparisons[pair_idx]
       IN  \E routine \in TTestOutcomes(groups_data[pair[1]], groups_data[pair[2]]) :
              IF routine.raised
                THEN /\ ph_pc' = "raised"
                     /\ UNCHANGED <<posthoc_results, pair_idx>>
                ELSE /\ posthoc_results' = Append(posthoc_results,
                                                  bonferroni_record(pair, n_comparisons, routine))
                     /\ pair_idx' = pair_idx + 1
                     /\ UNCHANGED ph_pc
    /\ ph_calls' = Append(ph_calls, [fn |-> "ttest_ind", key |-> comparisons[pair_idx]])
    /\ UNCHANGED <<ph_entry, ph_df, ph_alpha, correction, factor_idx, groups_data, ph_names,
                   kw_result, comparisons, n_comparisons, all_results>>
    /\ UNCHANGED <<pareto_vars, norm_vars, drv_vars, batch_vars, extra_vars>>

\* perform_post_hoc_tukey with tukey_hsd: the filter, the empty return, and
\* tukey_hsd(*valid_groups) (not guarded)
TukeyStart ==
    /\ ph_pc = "anova_posthoc"
    /\ ph_entry = "tukey"
    /\ LET v_names == ValidNames(groups_data, ph_names)
       IN  IF Len(v_names) < 2
             THEN /\ ph_pc' = "done"
                  /\ UNCHANGED <<comparisons, pair_idx, ph_calls>>
             ELSE /\ ph_calls' = Append(ph_calls, [fn |-> "tukey_hsd", key |-> "metric"])
                  /\ \E raised \in BOOLEAN :
                        IF raised
                          THEN /\ ph_pc' = "raised"
                               /\ UNCHANGED <<comparisons, pair_idx>>
                          ELSE /\ comparisons' = combinations(v_names)
                               /\ pair_idx' = 1
                               /\ ph_pc' = "tukey_pairs"
    /\ posthoc_results' = <<>>
    /\ UNCHANGED <<ph_entry, ph_df, ph_alpha, correction, factor_idx, groups_data, ph_names,
                   kw_result, n_comparisons, all_results>>
    /\ UNCHANGED <<pareto_vars, norm_vars, drv_vars, batch_vars, extra_vars>>

\* the record of a pair i < j from the matrix of p-values
TukeyPairStep ==
    /\ ph_pc = "tukey_pairs"
    /\ pair_idx <= Len(comparisons)
    /\ \E p \in TukeyPValues :
          posthoc_results' = Append(posthoc_results, tukey_record(comparisons[pair_idx], p))
    /\ pair_idx' = pair_idx + 1
    /\ UNCHANGED <<ph_pc, ph_entry, ph_df, ph_alpha, correction, factor_idx, groups_data,
                   ph_names, kw_result, comparisons, n_comparisons, all_results, ph_calls>>
    /\ UNCHANGED <<pareto_vars, norm_vars, drv_vars, batch_vars, extra_vars>>

\* return pd.DataFrame(comparisons)
AnovaPostHocReturn ==
    /\ ph_pc \in {"ttests", "tukey_pairs"}
    /\ pair_idx > Len(comparisons)
    /\ ph_pc' = "done"
    /\ UNCHANGED <<ph_entry, ph_df, ph_alpha, correction, factor_idx, groups_data, ph_names,
                   kw_result, comparisons, n_comparisons, pair_idx, posthoc_results,
                   all_results, ph_calls>>
    /\ UNCHANGED <<pareto_vars, norm_vars, drv_vars, batch_vars, extra_vars>>

\* --------------------------------- kolmogorov_smirnov_test.py, batch mode
\* a record with the fields of both; those of extra win (dict item assignment)
WithFields(r, extra) ==
    [f \in DOMAIN r \cup DOMAIN extra |-> IF f \in DOMAIN extra THEN extra[f] ELSE r[f]]

\* what pd.read_csv gives for a found file: its numeric columns, in order, and
\* the values of a column once dropna() has been applied
BatchSamples == {<<>>, <<1>>, <<2, 2, 2>>, <<1, 2, 3>>}

FileContents ==
    {[columns |-> <<>>, values |-> <<>>]}
        \cup {[columns |-> <<"Hypervolume">>, values |-> s] : s \in BatchSamples}
        \cup {[columns |-> <<"Spread", "Hypervolume">>, values |-> <<1, 2, 3>>],
              [columns |-> <<"Spread">>, values |-> <<1, 2, 3>>]}

BatchColumns == {"None", "Hypervolume"}

\* load_data_from_csv(csv_file, column), the pandas branch: the column it
\* settles on and the data, or the exception it raises
load_data_from_csv(csv_file, column) ==
    LET numeric_cols == csv_file.columns
        picked == IF column # "None" THEN column
                  ELSE IF "Hypervolume" \in Range(numeric_cols) THEN "Hypervolume"
                  ELSE IF numeric_cols # <<>> THEN numeric_cols[1]
                  ELSE "None"
    IN  IF column = "None" /\ numeric_cols = <<>>
          THEN [raised |-> TRUE, error |-> "no numeric columns"]
        ELSE IF picked \notin Range(csv_file.columns)
          THEN [raised |-> TRUE, error |-> "column does not exist"]
        ELSE IF Len(csv_file.values) = 0
          THEN [raised |-> TRUE, error |-> "no valid data"]
        ELSE [raised |-> FALSE, data |-> csv_file.values, column |-> picked]

BatchIdle ==
    /\ batch_pc = "idle"
    /\ batch_files = <<>>
    /\ batch_column = "None"
    /\ batch_alpha = ANOVA_ALPHA
    /\ verbose = FALSE
    /\ file_idx = 0
    /\ batch_results = <<>>
    /\ csv_rows = <<>>

\* main with --batch: the files found under the directory, sorted by path;
\* the folder of the k-th file is named by k
BatchCall ==
    /\ batch_pc = "call"
    /\ \E contents \in SeqsUpTo(FileContents, MaxBatchFiles) :
         batch_files = [k \in 1..Len(contents) |->
                            [folder |-> k, columns |-> contents[k].columns,
                             values |-> contents[k].values]]
    /\ batch_column \in BatchColumns
    /\ batch_alpha \in PhAlphas
    /\ verbose \in BOOLEAN
    /\ file_idx = 0
    /\ batch_results = <<>>
    /\ csv_rows = <<>>

\* process_all_files up to its loop: no file found returns the empty list
ProcessAllFilesStart ==
    /\ batch_pc = "call"
    /\ IF batch_files = <<>>
         THEN batch_pc' = "returned" /\ UNCHANGED file_idx
         ELSE batch_pc' = "loop" /\ file_idx' = 1
    /\ UNCHANGED <<batch_files, batch_column, batch_alpha, verbose, batch_results, csv_rows>>
    /\ UNCHANGED <<pareto_vars, norm_vars, drv_vars, ph_vars, extra_vars>>

\* the record appended when the try block raises
error_record(csv_file, error) ==
    [folder |-> csv_file.folder, file_path |-> csv_file.folder, error |-> error, n |-> 0]

\* the record appended when the try block gets to the append
test_record(csv_file, loaded, routine) ==
    WithFields(perform_kolmogorov_smirnov_test(loaded.data, batch_alpha, routine),
               [folder |-> csv_file.folder, file_path |-> csv_file.folder,
                column |-> loaded.column])

\* the verbose line formats p_value with :.6f, which raises for a value that
\* is not a number; every result of the test carries a float p_value
verbose_print_raises(test_result) == "p_value" \notin DOMAIN test_result

\* the records one iteration of the loop adds to all_results
file_records(csv_file, routine) ==
    LET loaded == load_data_from_csv(csv_file, batch_column)
    IN  IF loaded.raised
          THEN <<error_record(csv_file, loaded.error)>>
        ELSE LET test_result == test_record(csv_file, loaded, routine)
             IN  IF verbose /\ verbose_print_raises(test_result)
                   THEN <<test_result, error_record(csv_file, "format")>>
                   ELSE <<test_result>>

\* the loop dropping the file whose try block raised
ProcessFileDropError ==
    /\ batch_pc = "loop"
    /\ file_idx <= Len(batch_files)
    /\ LET csv_file == batch_files[file_idx]
           loaded == load_data_from_csv(csv_file, batch_column)
       IN  IF loaded.raised
             THEN UNCHANGED batch_results
             ELSE \E routine \in (IF ks_calls_routine(loaded.data)
                                    THEN KsOutcomes(Std(loaded.data))
                                    ELSE {RoutineRaised}) :
                    batch_results' = batch_results \o file_records(csv_file, routine)
    /\ file_idx' = file_idx + 1
    /\ UNCHANGED <<batch_pc, batch_files, batch_column, batch_alpha, verbose, csv_rows>>
    /\ UNCHANGED <<pareto_vars, norm_vars, drv_vars, ph_vars, extra_vars>>

\* process_all_files: one iteration of the loop over the files
ProcessFile ==
    /\ batch_pc = "loop"
    /\ file_idx <= Len(batch_files)
    /\ LET csv_file == batch_files[file_idx]
           loaded == load_data_from_csv(csv_file, batch_column)
       IN  \E routine \in (IF ~loaded.raised /\ ks_calls_routine(loaded.data)
                             THEN KsOutcomes(Std(loaded.data))
                             ELSE {RoutineRaised}) :
              batch_results' = batch_results \o file_records(csv_file, routine)
    /\ file_idx' = file_idx + 1
    /\ UNCHANGED <<batch_pc, batch_files, batch_column, batch_alpha, verbose, csv_rows>>
    /\ UNCHANGED <<pareto_vars, norm_vars, drv_vars, ph_vars, extra_vars>>

\* process_all_files: the loop is over, all_results is returned
ProcessAllFilesReturn ==
    /\ batch_pc = "loop"
    /\ file_idx > Len(batch_files)
    /\ batch_pc' = "returned"
    /\ UNCHANGED <<batch_files, batch_column, batch_alpha, verbose, file_idx,
                   batch_results, csv_rows>>
    /\ UNCHANGED <<pareto_vars, norm_vars, drv_vars, ph_vars, extra_vars>>

\* main: an empty list of results ends the process with status 1
BatchExitNoResults ==
    /\ batch_pc = "returned"
    /\ batch_results = <<>>
    /\ batch_pc' = "exit1"
    /\ UNCHANGED <<batch_files, batch_column, batch_alpha, verbose, file_idx,
                   batch_results, csv_rows>>
    /\ UNCHANGED <<pareto_vars, norm_vars, drv_vars, ph_vars, extra_vars>>

\* the row save_batch_results_to_csv builds for one record
batch_row(result) ==
    IF "error" \in DOMAIN result
      THEN [Carpeta |-> result.folder, Columna |-> "", N |-> 0, p_valor |-> "",
            Es_Normal |-> FALSE, Nota |-> result.error]
      ELSE [Carpeta |-> result.folder, Columna |-> result.column, N |-> result.n,
            p_valor |-> result.p_value, Es_Normal |-> result.normal,
            Nota |-> IF "note" \in DOMAIN result THEN result.note ELSE ""]

\* the rows save_batch_results_to_csv writes; nothing for an empty list
save_batch_results_to_csv(all_res) == [k \in 1..Len(all_res) |-> batch_row(all_res[k])]

\* main: the summary is printed and the consolidated CSV is written
SaveBatchResults ==
    /\ batch_pc = "returned"
    /\ batch_results # <<>>
    /\ csv_rows' = save_batch_results_to_csv(batch_results)
    /\ batch_pc' = "saved"
    /\ UNCHANGED <<batch_files, batch_column, batch_alpha, verbose, file_idx, batch_results>>
    /\ UNCHANGED <<pareto_vars, norm_vars, drv_vars, ph_vars, extra_vars>>

\* ----------------- kruskal_wallis_test.py: folder names and factor groups
\* a token of a folder name is the sequence of its characters
Digits == <<"0", "1", "2", "3", "4", "5", "6", "7", "8", "9">>

IsDigit(c) == c \in Range(Digits)

DigitValue(c) == (CHOOSE d \in 1..Len(Digits) : Digits[d] = c) - 1

\* float(token) and int(token) succeed on a non-empty run of digits
IsNumeric(token) == Len(token) > 0 /\ \A k \in 1..Len(token) : IsDigit(token[k])

\* the number a run of digits denotes: leading zeros do not count
RECURSIVE NumberOf(_)
NumberOf(token) ==
    IF token = <<>> THEN 0
    ELSE 10 * NumberOf(SubSeq(token, 1, Len(token) - 1)) + DigitValue(token[Len(token)])

\* values of crossover and mutation are kept in millionths
Micro == 1000000

NoParams == [none |-> TRUE]

\* parse_folder_name(folder_name) on parts = folder_name.split('_')
parse_folder_name(parts) ==
    IF Len(parts) >= 4
      THEN IF IsNumeric(parts[2]) /\ IsNumeric(parts[3]) /\ IsNumeric(parts[4])
             THEN [none |-> FALSE,
                   crossover |-> (NumberOf(parts[2]) * Micro) \div 10,
                   mutation |-> (NumberOf(parts[3]) * Micro) \div 1000,
                   population |-> NumberOf(parts[4]),
                   folder |-> parts]
             ELSE NoParams
      ELSE NoParams

\* the tokens of the experiment grid, each list in the order paths sort
CrossoverTokens == << <<"0", "6">>, <<"0", "7">>, <<"0", "8">> >>

MutationTokens == << <<"0", "0", "1">>, <<"0", "1">>, <<"1">> >>

PopulationTokens == << <<"1", "0", "0">>, <<"2", "0", "0">>, <<"5", "0">> >>

Prefix == <<"promedio">>

GridFolder(c, m, p) ==
    <<Prefix, CrossoverTokens[c], MutationTokens[m], PopulationTokens[p]>>

\* the 27 folders of the grid in sorted order, then two names that are not
\* of the grid: one with a token that is no number, one with too few tokens
CandidateFolders ==
    [k \in 1..27 |-> GridFolder(((k - 1) \div 9) + 1, (((k - 1) \div 3) % 3) + 1,
                                ((k - 1) % 3) + 1)]
        \o << <<Prefix, <<"0", "6">>, <<"x">>, <<"5", "0">> >>, <<Prefix, <<"v", "2">> >> >>

\* main of kruskal_wallis_test.py: the files glob found, sorted; each is in a
\* folder of its own and has the Hypervolume column (one row) or lacks it
GridCall ==
    /\ grid_pc = "load"
    /\ \E chosen \in SeqsUpTo(1..Len(CandidateFolders), MaxFolders) :
         /\ \A k \in 1..(Len(chosen) - 1) : chosen[k] < chosen[k + 1]
         /\ \E has_hv \in [1..Len(chosen) -> BOOLEAN] :
              found_folders = [k \in 1..Len(chosen) |->
                                  [parts |-> CandidateFolders[chosen[k]],
                                   has_hypervolume |-> has_hv[k]]]
    /\ folder_idx = 1
    /\ all_data = <<>>
    /\ grid_factor_idx = 0
    /\ grid_groups = <<>>

\* load_hypervolume_data: one iteration of the loop over the sorted files
LoadFolder ==
    /\ grid_pc = "load"
    /\ folder_idx <= Len(found_folders)
    /\ LET csv_file == found_folders[folder_idx]
           params == parse_folder_name(csv_file.parts)
       IN  all_data' = IF params.none \/ ~csv_file.has_hypervolume
                         THEN all_data
                         ELSE Append(all_data,
                                     [folder |-> csv_file.parts,
                                      crossover |-> params.crossover,
                                      mutation |-> params.mutation,
                                      population |-> params.population,
                                      hypervolume |-> 1])
    /\ folder_idx' = folder_idx + 1
    /\ UNCHANGED <<grid_pc, found_folders, grid_factor_idx, grid_groups>>
    /\ UNCHANGED outside_grid

\* load_hypervolume_data returns; main stops on an empty table
LoadReturn ==
    /\ grid_pc = "load"
    /\ folder_idx > Len(found_folders)
    /\ IF all_data = <<>>
         THEN grid_pc' = "exit1" /\ UNCHANGED grid_factor_idx
         ELSE grid_pc' = "factors" /\ grid_factor_idx' = 1
    /\ UNCHANGED <<found_folders, folder_idx, all_data, grid_groups>>
    /\ UNCHANGED outside_grid

\* analyze_by_factor: groups_data gets one key per df[factor].unique()
GroupByFactor ==
    /\ grid_pc = "factors"
    /\ grid_factor_idx <= Len(Factors)
    /\ grid_groups' = Append(grid_groups, Unique(all_data, Factors[grid_factor_idx], 1))
    /\ grid_factor_idx' = grid_factor_idx + 1
    /\ UNCHANGED <<grid_pc, found_folders, folder_idx, all_data>>
    /\ UNCHANGED outside_grid

\* main: the loop over the factors is over
GridDone ==
    /\ grid_pc = "factors"
    /\ grid_factor_idx > Len(Factors)
    /\ grid_pc' = "done"
    /\ UNCHANGED <<found_folders, folder_idx, all_data, grid_factor_idx, grid_groups>>
    /\ UNCHANGED outside_grid

\* ------------------------------------------ run_normality_test_parallel.py
\* the number of replicates; the script runs 50
NUM_REPLICATES == MaxReplicates

\* seeds = list(range(1, NUM_REPLICATES + 1))
seeds == [k \in 1..NUM_REPLICATES |-> k]

\* the hypervolume the run of a replicate computes, one value per seed
HypervolumeOf(seed) == 10 * seed

NoValue == [none |-> TRUE]

Value(v) == [none |-> FALSE, v |-> v]

\* what the Java run of a replicate can do: print its hypervolume, or not
\* print it and append its row to the statistics CSV, or not print it and
\* leave the file alone, or fail (non-zero exit status, timeout)
RunOutcomes == {"stdout", "csv_row", "silent", "failed"}

\* extract_hypervolume_from_csv(): the HV of the last row, None without rows
extract_hypervolume_from_csv(rows) ==
    IF rows = <<>> THEN NoValue ELSE Value(rows[Len(rows)])

\* main: every replicate is submitted to the pool with its seed
RunnerCall ==
    /\ run_pc = "pool"
    /\ futures = [replicate_num \in 1..NUM_REPLICATES |->
                    [state |-> "queued", seed |-> seeds[replicate_num], result |-> NoValue]]
    /\ stats_csv \in {<<>>, <<5>>}
    /\ hypervolumes = <<>>
    /\ failed_replicates = <<>>
    /\ saved_rows = <<>>

\* run_java_experiment up to the end of subprocess.run, in a worker; the pool
\* breaking leaves the future with an exception instead
WorkerRun(r) ==
    /\ run_pc = "pool"
    /\ futures[r].state = "queued"
    /\ \E outcome \in RunOutcomes \cup {"pool_broken"} :
         /\ futures' = [futures EXCEPT ![r] =
                [@ EXCEPT !.state = CASE outcome = "stdout" -> "returned"
                                      [] outcome = "failed" -> "returned"
                                      [] outcome = "pool_broken" -> "raised"
                                      [] OTHER -> "sleeping",
                          !.result = IF outcome = "stdout"
                                       THEN Value(HypervolumeOf(futures[r].seed))
                                       ELSE NoValue]]
         /\ stats_csv' = IF outcome = "csv_row"
                           THEN Append(stats_csv, HypervolumeOf(futures[r].seed))
                           ELSE stats_csv
    /\ UNCHANGED <<run_pc, hypervolumes, failed_replicates, saved_rows>>
    /\ UNCHANGED outside_run

\* run_java_experiment after time.sleep(0.5): the value is read back from the
\* statistics CSV and the tuple is returned
WorkerReadCsv(r) ==
    /\ run_pc = "pool"
    /\ futures[r].state = "sleeping"
    /\ futures' = [futures EXCEPT ![r] =
                      [@ EXCEPT !.state = "returned",
                                !.result = extract_hypervolume_from_csv(stats_csv)]]
    /\ UNCHANGED <<run_pc, stats_csv, hypervolumes, failed_replicates, saved_rows>>
    /\ UNCHANGED outside_run

\* the body of the as_completed loop that records every replicate as failed
CollectAlwaysFailed(r) ==
    /\ run_pc = "pool"
    /\ futures[r].state \in {"returned", "raised"}
    /\ failed_replicates' = Append(failed_replicates, r)
    /\ IF futures[r].state = "returned" /\ ~futures[r].result.none
         THEN hypervolumes' = Append(hypervolumes, <<r, futures[r].result.v>>)
         ELSE UNCHANGED hypervolumes
    /\ futures' = [futures EXCEPT ![r].state = "collected"]
    /\ UNCHANGED <<run_pc, stats_csv, saved_rows>>
    /\ UNCHANGED outside_run

\* main: one iteration of `for future in as_completed(future_to_seed)`
Collect(r) ==
    /\ run_pc = "pool"
    /\ futures[r].state \in {"returned", "raised"}
    /\ IF futures[r].state = "returned" /\ ~futures[r].result.none
         THEN /\ hypervolumes' = Append(hypervolumes, <<r, futures[r].result.v>>)
              /\ UNCHANGED failed_replicates
         ELSE /\ failed_replicates' = Append(failed_replicates, r)
              /\ UNCHANGED hypervolumes
    /\ futures' = [futures EXCEPT ![r].state = "collected"]
    /\ UNCHANGED <<run_pc, stats_csv, saved_rows>>
    /\ UNCHANGED outside_run

\* main: the pool has finished; without any hypervolume the script exits
PoolFinished ==
    /\ run_pc = "pool"
    /\ \A r \in 1..NUM_REPLICATES : futures[r].state = "collected"
    /\ run_pc' = IF hypervolumes = <<>> THEN "exit1" ELSE "summary"
    /\ UNCHANGED <<futures, stats_csv, hypervolumes, failed_replicates, saved_rows>>
    /\ UNCHANGED outside_run

\* sorted(hypervolumes, key=lambda x: x[0]): replicate numbers are distinct
RECURSIVE SortByReplicate(_)
SortByReplicate(pairs) ==
    IF pairs = <<>> THEN <<>>
    ELSE LET least == CHOOSE k \in 1..Len(pairs) :
                          \A m \in 1..Len(pairs) : pairs[k][1] <= pairs[m][1]
         IN  <<pairs[least]>>
                 \o SortByReplicate([k \in 1..(Len(pairs) - 1) |->
                                        IF k < least THEN pairs[k] ELSE pairs[k + 1]])

\* save_results(hypervolumes, seeds, output_file): the rows written
save_results(hvs, seed_list) ==
    LET hypervolumes_sorted == SortByReplicate(hvs)
        zipped == IF Len(hypervolumes_sorted) < Len(seed_list)
                    THEN Len(hypervolumes_sorted) ELSE Len(seed_list)
    IN  [k \in 1..zipped |->
            [Replica |-> hypervolumes_sorted[k][1], Seed |-> seed_list[k],
             Hypervolume |-> hypervolumes_sorted[k][2]]]

\* main: save_results(hypervolumes, seeds, output_file)
SaveResults ==
    /\ run_pc = "summary"
    /\ saved_rows' = save_results(hypervolumes, seeds)
    /\ run_pc' = "saved"
    /\ UNCHANGED <<futures, stats_csv, hypervolumes, failed_replicates>>
    /\ UNCHANGED outside_run

\* ------------------------------------------------------ preprocess_data.py
\* the semesters and the career lists normalize_carrera can give an exam
Semestres == {0, 1, 2}

CarreraSets == {{}, {"todas"}, {"civil"}, {"naval"}, {"civil", "naval"}, {"todas", "civil"}}

ExamKinds == [semestre : Semestres, carreras : CarreraSets]

\* semestre_carreras[semestre]: the careers other than 'todas' of its exams
semestre_carreras(exams, semestre) ==
    UNION {exams[k].carreras \ {"todas"} : k \in {m \in 1..Len(exams) :
                exams[m].semestre > 0 /\ exams[m].semestre = semestre}}

\* the keys f"{semestre}_{carrera}" an exam is filed under; the semester is
\* an integer, so the key determines the pair (semestre, carrera)
group_keys(exams, exam) ==
    IF ~(exam.semestre > 0) THEN {}
    ELSE IF "todas" \in exam.carreras
      THEN IF semestre_carreras(exams, exam.semestre) # {}
             THEN {<<exam.semestre, c>> : c \in semestre_carreras(exams, exam.semestre)}
             ELSE {<<exam.semestre, "todas">>}
    ELSE {<<exam.semestre, c>> : c \in exam.carreras}

\* the ids of the exams filed under a key, in list order
RECURSIVE IdsUnder(_, _, _)
IdsUnder(exams, key, k) ==
    IF k > Len(exams) THEN <<>>
    ELSE IF key \in group_keys(exams, exams[k])
      THEN <<exams[k].id>> \o IdsUnder(exams, key, k + 1)
    ELSE IdsUnder(exams, key, k + 1)

\* calculate_conflict_groups(examenes)
calculate_conflict_groups(exams) ==
    LET keys == UNION {group_keys(exams, exams[k]) : k \in 1..Len(exams)}
    IN  [key \in keys |-> IdsUnder(exams, key, 1)]

\* examenes_expandidos[k]['carreras'] with 'todas' left as it is
carreras_unexpanded(exams, exam) ==
    IF exam.semestre > 0 THEN exam.carreras ELSE {}

\* examenes_expandidos[k]['carreras']
carreras_expandidas(exams, exam) ==
    IF exam.semestre > 0
      THEN IF "todas" \in exam.carreras
             THEN IF semestre_carreras(exams, exam.semestre) # {}
                    THEN semestre_carreras(exams, exam.semestre)
                    ELSE {"todas"}
             ELSE exam.carreras \ {"todas"}
      ELSE {}

\* calculate_conflict_matrix(examenes); rows and columns are list positions,
\* numbered from 1 here
calculate_conflict_matrix(exams) ==
    [i \in 1..Len(exams) |-> [j \in 1..Len(exams) |->
        LET exam1 == exams[IF i < j THEN i ELSE j]
            exam2 == exams[IF i < j THEN j ELSE i]
        IN  IF i = j THEN 0
            ELSE IF /\ exam1.semestre > 0 /\ exam2.semestre > 0
                    /\ exam1.semestre = exam2.semestre
                    /\ carreras_expandidas(exams, exam1)
                           \cap carreras_expandidas(exams, exam2) # {}
              THEN 1
            ELSE 0]]

\* process_instance: the exams load_examenes returns, ids 0, 1, ...
ProcessInstanceCall ==
    /\ conf_pc = "groups"
    /\ \E kinds \in SeqsUpTo(ExamKinds, MaxExams) :
         examenes = [k \in 1..Len(kinds) |->
                        [id |-> k - 1, semestre |-> kinds[k].semestre,
                         carreras |-> kinds[k].carreras]]
    /\ conflict_groups = <<>>
    /\ conflict_matrix = <<>>
    /\ conflict_pairs = <<>>

\* conflict_groups = calculate_conflict_groups(examenes)
CalculateConflictGroups ==
    /\ conf_pc = "groups"
    /\ conflict_groups' = calculate_conflict_groups(examenes)
    /\ conf_pc' = "matrix"
    /\ UNCHANGED <<examenes, conflict_matrix, conflict_pairs>>
    /\ UNCHANGED outside_conf

\* conflict_matrix = calculate_conflict_matrix(examenes)
CalculateConflictMatrix ==
    /\ conf_pc = "matrix"
    /\ conflict_matrix' = calculate_conflict_matrix(examenes)
    /\ conf_pc' = "pairs"
    /\ UNCHANGED <<examenes, conflict_groups, conflict_pairs>>
    /\ UNCHANGED outside_conf

\* the pairs (i, j), i < j, in the order of the two nested loops
RECURSIVE PairsFrom(_, _, _)
PairsFrom(matrix, i, j) ==
    IF i > Len(matrix) THEN <<>>
    ELSE IF j > Len(matrix) THEN PairsFrom(matrix, i + 1, i + 2)
    ELSE IF matrix[i][j] = 1 THEN << <<i - 1, j - 1>> >> \o PairsFrom(matrix, i, j + 1)
    ELSE PairsFrom(matrix, i, j + 1)

\* process_instance: conflict_pairs is read off the matrix
CollectConflictPairs ==
    /\ conf_pc = "pairs"
    /\ conflict_pairs' = PairsFrom(conflict_matrix, 1, 2)
    /\ conf_pc' = "done"
    /\ UNCHANGED <<examenes, conflict_groups, conflict_matrix>>
    /\ UNCHANGED outside_conf

\* ------------------------------------------------- anova_test.py: main
\* Python values main handles, tagged with their type
PyDict(d) == [kind |-> "dict", value |-> d]

PyTuple(items) == [kind |-> "tuple", items |-> items]

\* bool(x) of a dict or a tuple
Truthy(x) ==
    IF x.kind = "dict" THEN DOMAIN x.value # {} ELSE Len(x.items) > 0

\* key in x: a key of a dict, an element of a tuple; the elements here are
\* dicts and a str equals none of them
Contains(x, key) ==
    IF x.kind = "dict" THEN key \in DOMAIN x.value
    ELSE \E k \in 1..Len(x.items) : x.items[k].kind = "str" /\ x.items[k].value = key

\* x.items() exists for a dict only
HasItems(x) == x.kind = "dict"

\* the names defined at the top level of the module that main reads
ModuleNames == {"OUTPUT_DIR", "PANDAS_AVAILABLE", "analyze_by_configuration",
                "print_anova_results", "save_results_to_csv"}

NameDefined(name) == name \in main_names \cup ModuleNames

\* main has loaded the two tables
AnovaMainCall ==
    /\ amain_pc = "loaded"
    /\ main_names = {"args", "hypervolume_df", "evolution_df"}
    /\ main_results = <<>>

\* if not has_hypervolume and not has_evolution: sys.exit(1)
MainCheckData ==
    /\ amain_pc = "loaded"
    /\ amain_pc' = IF hypervolume_df = <<>> /\ final_metrics = <<>>
                     THEN "exit1" ELSE "analyzing"
    /\ main_names' = main_names \cup {"has_hypervolume", "has_evolution"}
    /\ UNCHANGED main_results
    /\ UNCHANGED outside_amain

\* an exception inside analyze_by_configuration leaves main too
MainAnalysisRaised ==
    /\ amain_pc = "analyzing"
    /\ drv_pc = "raised"
    /\ amain_pc' = "raised"
    /\ UNCHANGED <<main_names, main_results>>
    /\ UNCHANGED outside_amain

\* results = analyze_by_configuration(...) and the rest of main: the error
\* check, print_anova_results, save_results_to_csv, 'analysis completed'
MainAfterAnalysis ==
    /\ amain_pc = "analyzing"
    /\ drv_pc = "done"
    /\ LET returned == PyTuple(<<PyDict(anova_results), PyDict(normality_results)>>)
       IN  /\ main_results' = returned
           /\ main_names' = main_names \cup {"results"}
           /\ amain_pc' = IF ~Truthy(returned) \/ Contains(returned, "error") THEN "exit1"
                          ELSE IF ~HasItems(returned) THEN "raised"
                          ELSE IF ~NameDefined("normality_results") THEN "raised"
                          ELSE "completed"
    /\ UNCHANGED outside_amain

GridIdle ==
    /\ grid_pc = "idle"
    /\ found_folders = <<>>
    /\ folder_idx = 0
    /\ all_data = <<>>
    /\ grid_factor_idx = 0
    /\ grid_groups = <<>>

RunIdle ==
    /\ run_pc = "idle"
    /\ futures = <<>>
    /\ stats_csv = <<>>
    /\ hypervolumes = <<>>
    /\ failed_replicates = <<>>
    /\ saved_rows = <<>>

ConfIdle ==
    /\ conf_pc = "idle"
    /\ examenes = <<>>
    /\ conflict_groups = <<>>
    /\ conflict_matrix = <<>>
    /\ conflict_pairs = <<>>

AmainIdle ==
    /\ amain_pc = "idle"
    /\ main_names = {}
    /\ main_results = <<>>

ExtraIdle == GridIdle /\ RunIdle /\ ConfIdle /\ AmainIdle

LaterIdle == PostHocIdle /\ BatchIdle /\ ExtraIdle

InitPostHoc ==
    /\ (KwMainCall \/ KruskalCall \/ PostHocCall \/ AnovaCall \/ KwScriptCall
            \/ AnovaPostHocCall)
    /\ ParetoIdle /\ NormIdle /\ DriverIdle /\ BatchIdle /\ ExtraIdle

NextPostHoc ==
    \/ AnalyzeByFactor
    \/ KruskalDirect
    \/ PostHocStart
    \/ PostHocPairSkip
    \/ PostHocPairStep
    \/ PostHocReturn
    \/ KwMainReturn
    \/ AnovaDirect
    \/ KwScriptRun
    \/ TukeyImportError
    \/ BonferroniStart
    \/ BonferroniPairStep
    \/ TukeyStart
    \/ TukeyPairStep
    \/ AnovaPostHocReturn

SpecPostHoc == InitPostHoc /\ [][NextPostHoc]_vars

InitBatch == BatchCall /\ ParetoIdle /\ NormIdle /\ DriverIdle /\ PostHocIdle /\ ExtraIdle

NextBatch ==
    \/ ProcessAllFilesStart
    \/ ProcessFile
    \/ ProcessAllFilesReturn
    \/ BatchExitNoResults
    \/ SaveBatchResults

SpecBatch == InitBatch /\ [][NextBatch]_vars

InitGrid ==
    /\ GridCall
    /\ ParetoIdle /\ NormIdle /\ DriverIdle /\ PostHocIdle /\ BatchIdle
    /\ RunIdle /\ ConfIdle /\ AmainIdle

NextGrid ==
    \/ LoadFolder
    \/ LoadReturn
    \/ GroupByFactor
    \/ GridDone

SpecGrid == InitGrid /\ [][NextGrid]_vars

InitRunner ==
    /\ RunnerCall
    /\ ParetoIdle /\ NormIdle /\ DriverIdle /\ PostHocIdle /\ BatchIdle
    /\ GridIdle /\ ConfIdle /\ AmainIdle

NextRunner ==
    \/ \E r \in 1..NUM_REPLICATES : WorkerRun(r)
    \/ \E r \in 1..NUM_REPLICATES : WorkerReadCsv(r)
    \/ \E r \in 1..NUM_REPLICATES : Collect(r)
    \/ PoolFinished
    \/ SaveResults

SpecRunner == InitRunner /\ [][NextRunner]_vars

InitConflicts ==
    /\ ProcessInstanceCall
    /\ ParetoIdle /\ NormIdle /\ DriverIdle /\ PostHocIdle /\ BatchIdle
    /\ GridIdle /\ RunIdle /\ AmainIdle

NextConflicts ==
    \/ CalculateConflictGroups
    \/ CalculateConflictMatrix
    \/ CollectConflictPairs

SpecConflicts == InitConflicts /\ [][NextConflicts]_vars

InitAnovaMain ==
    /\ AnovaMainCall
    /\ DriverCall
    /\ NormIdle /\ ParetoIdle /\ PostHocIdle /\ BatchIdle
    /\ GridIdle /\ RunIdle /\ ConfIdle

\* the steps of analyze_by_configuration, taken once main has called it
AnalyzeByConfiguration ==
    /\ amain_pc = "analyzing"
    /\ \/ DriverStart
       \/ UnitSkip
       \/ UnitNormality
       \/ FilterGroups
       \/ AnovaKSGroupStep
       \/ NormReturn
       \/ UnitAnova
       \/ UnitNormalityRaised
       \/ DriverReturn

NextAnovaMain ==
    \/ MainCheckData
    \/ AnalyzeByConfiguration
    \/ MainAnalysisRaised
    \/ MainAfterAnalysis

SpecAnovaMain == InitAnovaMain /\ [][NextAnovaMain]_vars

\* ------------------------------------------------------- specifications
InitNorm == (KSCall \/ GroupCall) /\ ParetoIdle /\ DriverIdle /\ LaterIdle

NextNorm ==
    \/ KSTest
    \/ FilterGroups
    \/ ADGroupStep
    \/ AnovaKSGroupStep
    \/ NormReturn

SpecNorm == InitNorm /\ [][NextNorm]_vars

InitAnova == DriverCall /\ NormIdle /\ ParetoIdle /\ LaterIdle

NextAnova ==
    \/ DriverStart
    \/ UnitSkip
    \/ UnitNormality
    \/ FilterGroups
    \/ AnovaKSGroupStep
    \/ NormReturn
    \/ UnitAnova
    \/ UnitNormalityRaised
    \/ DriverReturn

SpecAnova == InitAnova /\ [][NextAnova]_vars

InitPareto == ParetoCall /\ NormIdle /\ DriverIdle /\ LaterIdle

NextPareto ==
    \/ OuterNext
    \/ InnerStep
    \/ InnerExhausted
    \/ Classify
    \/ ParetoReturn

SpecPareto == InitPareto /\ [][NextPareto]_vars

\* ------------------------------------------------------------------ C1
\* C1: when get_non_dominated_solutions has returned, every solution in
\* `dominated` is dominated by at least one solution in `non_dominated`.
C1_DominatedHasNonDominatedDominator ==
    pareto_pc = "done" =>
        \A k \in 1..Len(dominated) :
            \E m \in 1..Len(non_dominated) :
                dominates(non_dominated[m], dominated[k])

\* a returned call in which one dominated solution dominates another one, so
\* that the dominator the scan may meet is itself dominated
C1_Witness ==
    /\ pareto_pc = "done"
    /\ \E k, m \in 1..Len(dominated) : dominates(dominated[m], dominated[k])

\* ------------------------------------------------------------------ C2
\* C2: the two returned lists partition the input: for every value, its number
\* of copies in non_dominated plus in dominated equals its number of copies in
\* the input, and no value occurs in both lists.
C2_Partition ==
    pareto_pc = "done" =>
        /\ \A x \in Range(solutions) \cup Range(non_dominated) \cup Range(dominated) :
              Count(non_dominated, x) + Count(dominated, x) = Count(solutions, x)
        /\ Range(non_dominated) \cap Range(dominated) = {}

\* a returned call whose input holds a duplicated value, with both lists non-empty
C2_Witness ==
    /\ pareto_pc = "done"
    /\ \E k, m \in 1..Len(solutions) : k # m /\ solutions[k] = solutions[m]
    /\ Len(non_dominated) > 0
    /\ Len(dominated) > 0

\* ------------------------------------------------------------------ C3
\* C3: dominates is irreflexive and asymmetric on the solutions it is applied to.
C3_IrreflexiveAsymmetric ==
    \A a, b \in Range(solutions) :
        /\ ~dominates(a, a)
        /\ dominates(a, b) => ~dominates(b, a)

\* the inner loop has just found sol_b dominating sol_a
C3_Witness ==
    /\ pareto_pc = "classify"
    /\ is_dominated
    /\ dominates(solutions[j_idx], solutions[i_idx])
    /\ ~dominates(solutions[i_idx], solutions[j_idx])

\* ------------------------------------------------------------------ C4
\* C4 as stated: identical solutions never dominate each other, every copy of
\* a duplicated solution is classified as non-dominated, and the worked example
\* returns ((1,10),(2,9),(2,9)) and ((3,5)).
C4_Original ==
    /\ \A a \in Range(solutions) : ~dominates(a, a)
    /\ pareto_pc = "done" =>
          \A k, m \in 1..Len(solutions) :
              (k # m /\ solutions[k] = solutions[m]) =>
                  /\ solutions[k] \in Range(non_dominated)
                  /\ solutions[k] \notin Range(dominated)
    /\ (pareto_pc = "done" /\ solutions = ExampleSolutions) =>
          /\ non_dominated = <<(<<1, 10>>), (<<2, 9>>), (<<2, 9>>)>>
          /\ dominated = <<(<<3, 5>>)>>

\* C4 (amended): identical solutions never dominate each other; all copies of
\* a value get the same classification, dominated exactly when some solution of
\* the input dominates the value; the worked example returns ((1,10)) and
\* ((2,9),(3,5),(2,9)), since (1,10) dominates (2,9).
C4_DuplicatesClassifiedAlike ==
    /\ \A a \in Range(solutions) : ~dominates(a, a)
    /\ pareto_pc = "done" =>
          \A x \in Range(solutions) :
              IF \E m \in 1..Len(solutions) : dominates(solutions[m], x)
                THEN Count(dominated, x) = Count(solutions, x)
                     /\ Count(non_dominated, x) = 0
                ELSE Count(non_dominated, x) = Count(solutions, x)
                     /\ Count(dominated, x) = 0
    /\ (pareto_pc = "done" /\ solutions = ExampleSolutions) =>
          /\ non_dominated = <<(<<1, 10>>)>>
          /\ dominated = <<(<<2, 9>>), (<<3, 5>>), (<<2, 9>>)>>

\* the worked example has returned with both copies of (2,9) dominated
C4_Witness ==
    /\ pareto_pc = "done"
    /\ solutions = ExampleSolutions
    /\ Count(solutions, <<2, 9>>) = 2
    /\ Count(dominated, <<2, 9>>) = 2

\* ------------------------------------------------------------------ C5
\* C5: the one-way ANOVA is run for a unit only when the unit's normality
\* verdict is all-normal, and a unit whose verdict is not all-normal gets the
\* Kruskal-Wallis test: every omnibus call agrees with the verdict computed
\* before it, and every finished unit with a verdict got its test.
C5_OmnibusFollowsVerdict ==
    /\ \A c \in 1..Len(omnibus_calls) :
          LET verdict == normality_results[omnibus_calls[c].key].all_groups_normal
          IN  /\ omnibus_calls[c].fn = "f_oneway" => verdict
              /\ omnibus_calls[c].fn = "kruskal" => ~verdict
    /\ drv_pc \in {"units", "done"} =>
          \A key \in DOMAIN normality_results :
              \E c \in 1..Len(omnibus_calls) :
                  /\ omnibus_calls[c].key = key
                  /\ omnibus_calls[c].fn =
                        (IF normality_results[key].all_groups_normal THEN "f_oneway" ELSE "kruskal")

\* ------------------------------------------------- results and samples
\* the indices of the valid groups whose result is already in `results`
Processed == {k \in 1..Len(valid_names) : valid_names[k] \in DOMAIN results}

ResultOf(k) == results[valid_names[k]]

HasNote(r) == "note" \in DOMAIN r

Returned == norm_pc = "done" /\ "all_groups_normal" \in DOMAIN norm_ret

\* the minimum sample size the spec gives for the method that runs
MinN == IF method = "AD" THEN AD_MIN_N ELSE KS_MIN_N

\* ------------------------------------------------------------------ C6
\* C6: the all_groups_normal a group-level normality function returns is the
\* conjunction of the `normal` fields of the results of all valid groups, and
\* during the loop all_normal is the conjunction over the groups done so far.
C6_AllNormalIsConjunction ==
    /\ Returned =>
          /\ Len(valid_names) >= 1
          /\ norm_ret.all_groups_normal =
                (\A k \in 1..Len(valid_names) : norm_ret.test_results[valid_names[k]].normal)
    /\ norm_pc = "loop" => all_normal = (\A k \in Processed : ResultOf(k).normal)

\* two valid groups, the first normal and the second not, and the verdict false
C6_Witness ==
    /\ Returned
    /\ Len(valid_names) = 2
    /\ ResultOf(1).normal
    /\ ~ResultOf(2).normal
    /\ norm_ret.all_groups_normal = FALSE

\* ------------------------------------------------------------------ C7
\* C7: every result computed for a sample whose values are all identical has
\* normal = false and carries a note, whichever classifier computed it.
C7_ZeroVarianceNotedNotNormal ==
    /\ (method = "KS" /\ norm_pc = "done" /\ AllIdentical(data)) =>
          (~ks_result.normal /\ HasNote(ks_result))
    /\ \A k \in Processed :
          AllIdentical(valid_groups[k]) => (~ResultOf(k).normal /\ HasNote(ResultOf(k)))

\* ------------------------------------------------------------------ C8
\* C8: a sample smaller than the method's minimum (3 for the KS classifiers,
\* 8 for Anderson-Darling) never reaches scipy's routine, and its result has
\* normal = false, a note, and NaN statistic and p_value.
C8_SmallSampleNotTested ==
    /\ (method = "KS" /\ norm_pc = "done" /\ Len(data) < MinN) =>
          /\ ~ks_result.normal /\ HasNote(ks_result)
          /\ IsNaN(ks_result.statistic) /\ IsNaN(ks_result.p_value)
    /\ \A k \in Processed :
          Len(valid_groups[k]) < MinN =>
              /\ ~ResultOf(k).normal /\ HasNote(ResultOf(k))
              /\ IsNaN(ResultOf(k).statistic) /\ IsNaN(ResultOf(k).p_value)
    /\ \A c \in 1..Len(stat_calls) : stat_calls[c].n >= MinN

\* ------------------------------------------------------------------ C9
\* C9: in every per-sample result, a note comes with normal = false and NaN
\* statistic and p_value, and a result without a note has a finite statistic.
NoteShape(r) ==
    /\ HasNote(r) => (~r.normal /\ IsNaN(r.statistic) /\ IsNaN(r.p_value))
    /\ ~HasNote(r) => IsFinite(r.statistic)

C9_NoteExcludesStatistic ==
    /\ (method = "KS" /\ norm_pc = "done") => NoteShape(ks_result)
    /\ \A k \in Processed : NoteShape(ResultOf(k))

\* ----------------------------------------------------------------- C10
\* C10 as stated: a group marked with a note is left out of the vote, so the
\* returned verdict equals the conjunction over the groups without a note
\* (whenever there is such a group).
C10_Original ==
    Returned =>
        LET rest == {k \in 1..Len(valid_names) : ~HasNote(ResultOf(k))}
        IN  rest # {} => norm_ret.all_groups_normal = (\A k \in rest : ResultOf(k).normal)

\* C10 (amended): a group marked with a note is not left out of the vote: its
\* result has normal = false and the returned verdict is false.
C10_NotedGroupVotesNotNormal ==
    /\ Returned =>
          \A k \in 1..Len(valid_names) :
              HasNote(ResultOf(k)) => (~ResultOf(k).normal /\ ~norm_ret.all_groups_normal)
    /\ norm_pc = "loop" =>
          \A k \in Processed : HasNote(ResultOf(k)) => ~all_normal

\* a too-small group next to a group that tested normal: the verdict is false
C10_Witness ==
    /\ Returned
    /\ method = "AD"
    /\ Len(valid_names) = 2
    /\ HasNote(ResultOf(1))
    /\ Len(valid_groups[1]) < AD_MIN_N
    /\ ~HasNote(ResultOf(2))
    /\ ResultOf(2).normal
    /\ norm_ret.all_groups_normal = FALSE

\* ----------------------------------------------------------------- C11
\* C11: a group-level normality function that is left with zero valid
\* (non-empty) groups returns a result with an `error` field and without
\* `all_groups_normal`; a result with `all_groups_normal` always comes from at
\* least one valid group, and no scipy routine was called for an empty set.
C11_NoValidGroupsIsError ==
    (method \in {"AD", "ANOVA_KS"} /\ norm_pc = "done") =>
        IF ValidIdx(groups, 1) = <<>>
          THEN /\ "error" \in DOMAIN norm_ret
               /\ "all_groups_normal" \notin DOMAIN norm_ret
               /\ stat_calls = <<>>
          ELSE /\ "error" \notin DOMAIN norm_ret
               /\ "all_groups_normal" \in DOMAIN norm_ret

\* two groups were passed, both empty, and the function returned the error
C11_Witness ==
    /\ method \in {"AD", "ANOVA_KS"}
    /\ norm_pc = "done"
    /\ Len(groups) = 2
    /\ ValidIdx(groups, 1) = <<>>
    /\ "error" \in DOMAIN norm_ret

\* ----------------------------------------------------------------- C12
\* the omnibus comparison that ran has ended, one way or the other
OmnibusEnded ==
    /\ ph_entry \in {"kruskal", "anova", "script"}
    /\ ph_pc \in {"done", "raised"}

\* C12: an omnibus comparison left with fewer than 2 non-empty groups calls
\* no statistical routine, does not raise, and returns a structured result (an
\* `error` or a `note`) that does not say significant = true; main's loop over
\* the factors goes on after such a factor and ends with one result per factor.
C12_TooFewGroupsStructuredError ==
    /\ (OmnibusEnded /\ Len(ValidNames(groups_data, ph_names)) < 2) =>
          /\ ph_calls = <<>>
          /\ ph_pc = "done"
          /\ "error" \in DOMAIN kw_result \/ "note" \in DOMAIN kw_result
          /\ "significant" \in DOMAIN kw_result => ~kw_result.significant
    /\ (ph_entry = "main" /\ ph_pc = "done") =>
          /\ Len(all_results) = Len(Factors)
          /\ \A k \in 1..Len(Factors) :
                /\ all_results[k].factor = Factors[k]
                /\ all_results[k].groups < 2 =>
                      ("note" \in DOMAIN all_results[k] /\ ~all_results[k].significant)

\* ----------------------------------------------------------------- C13
\* the function that produced posthoc_results has returned
PostHocReturned ==
    /\ ph_entry \in {"posthoc", "bonferroni", "tukey", "tukey_fallback"}
    /\ ph_pc = "done"

\* the unordered pair of groups a comparison record is about
PairOf(r) ==
    IF "group1" \in DOMAIN r THEN {r.group1, r.group2} ELSE {r.Grupo_1, r.Grupo_2}

\* the pairs of distinct groups among the names in s
PairsAmong(s) == {{a, b} : a, b \in Range(s)} \ {{a} : a \in Range(s)}

\* what the claim says of the records for k groups and n_pairs used
OnePerPair(names, n_pairs) ==
    LET k == Len(names)
    IN  /\ Len(posthoc_results) = (k * (k - 1)) \div 2
        /\ \A m \in 1..Len(posthoc_results) : Cardinality(PairOf(posthoc_results[m])) = 2
        /\ \A m, n \in 1..Len(posthoc_results) :
              m # n => PairOf(posthoc_results[m]) # PairOf(posthoc_results[n])
        /\ {PairOf(posthoc_results[m]) : m \in 1..Len(posthoc_results)} = PairsAmong(names)
        /\ n_pairs = Len(posthoc_results)

\* C13: the list a post-hoc function returns for k groups has one record per
\* unordered pair of distinct groups (k*(k-1)/2 records, none repeated, none
\* of a group with itself), and the pair count used for the correction is the
\* number of records.  For perform_posthoc_tests k is read either as the
\* number of groups it was given or as the number of non-empty ones; the
\* functions of anova_test.py count the groups left by their filter.
C13_OneRecordPerPair ==
    PostHocReturned =>
        IF ph_entry = "posthoc" THEN
             \/ OnePerPair(ph_names, n_comparisons)
             \/ OnePerPair(ValidNames(groups_data, ph_names), n_comparisons)
        ELSE IF ph_entry = "tukey" THEN
             OnePerPair(ValidNames(groups_data, ph_names), Len(posthoc_results))
        ELSE Len(ValidNames(groups_data, ph_names)) >= 2 =>
                OnePerPair(ValidNames(groups_data, ph_names), n_comparisons)

\* ----------------------------------------------------------------- C14
\* the records of pairs whose test answered with a p-value
TestedRecords ==
    {m \in 1..Len(posthoc_results) :
        /\ "error" \notin DOMAIN posthoc_results[m]
        /\ ~posthoc_results[m].p_value.nan}

\* the corrected p-value a record reports (perform_post_hoc_tukey reports none)
CorrectedOf(r) ==
    IF "p_value_corrected" \in DOMAIN r THEN r.p_value_corrected ELSE r.p_value_corregido

HasCorrected(r) == "p_value_corrected" \in DOMAIN r \/ "p_value_corregido" \in DOMAIN r

Bonferroni(p_value, n_pairs) ==
    IF p_value.v * n_pairs < One.v THEN Num(p_value.v * n_pairs) ELSE One

\* C14 as stated: in every record of a tested pair the corrected p-value is
\* min(raw_p * n_pairs, 1.0), whatever the `correction` argument.
C14_Original ==
    \A m \in TestedRecords :
        HasCorrected(posthoc_results[m]) =>
            CorrectedOf(posthoc_results[m]) =
                Bonferroni(posthoc_results[m].p_value, n_comparisons)

\* C14 (amended): the corrected p-value is min(raw_p * n_comparisons, 1.0) in
\* perform_bonferroni_correction and, in perform_posthoc_tests, when
\* `correction` is 'bonferroni' or 'holm'; with correction None it is the raw
\* p-value; for every value of `correction`, raw_p <= corrected_p <= 1.0.
C14_CorrectedPValue ==
    \A m \in TestedRecords :
        LET r == posthoc_results[m]
        IN  HasCorrected(r) =>
              /\ ("correction" \notin DOMAIN r \/ r.correction \in {"bonferroni", "holm"}) =>
                    CorrectedOf(r) = Bonferroni(r.p_value, n_comparisons)
              /\ ("correction" \in DOMAIN r /\ r.correction = "None") =>
                    CorrectedOf(r) = r.p_value
              /\ FLe(r.p_value, CorrectedOf(r))
              /\ FLe(CorrectedOf(r), One)

\* perform_posthoc_tests has returned three records with correction None, one
\* of them with the raw p-value 0.02 left as it is
C14_Witness ==
    /\ ph_entry = "posthoc"
    /\ ph_pc = "done"
    /\ correction = "None"
    /\ Len(posthoc_results) = 3
    /\ n_comparisons = 3
    /\ \E m \in TestedRecords :
          /\ posthoc_results[m].p_value = Num(20000)
          /\ posthoc_results[m].p_value_corrected = Num(20000)

C16_PostHocOnlyAfterSignificant ==
    ph_entry = "main" =>
        /\ \A k \in 1..Len(all_results) :
              LET r == all_results[k]
              IN  /\ "posthoc" \in DOMAIN r
                  /\ r.posthoc # <<>> => (r.significant /\ "note" \notin DOMAIN r)
                  /\ (~r.significant \/ "note" \in DOMAIN r) => r.posthoc = <<>>
        /\ ph_pc = "pairs" => (kw_result.significant /\ "note" \notin DOMAIN kw_result)
        /\ \A c \in 1..Len(ph_calls) :
              ph_calls[c].fn = "mannwhitneyu" =>
                  \E b \in 1..(c - 1) : ph_calls[b].fn = "kruskal"

\* main has ended with a factor whose test was not significant and has no
\* comparisons, a factor with a note, and a significant factor with its
\* three comparisons
C16_Witness ==
    /\ ph_entry = "main"
    /\ ph_pc = "done"
    /\ Len(all_results) = 3
    /\ "note" \notin DOMAIN all_results[1]
    /\ ~all_results[1].significant
    /\ all_results[1].posthoc = <<>>
    /\ "note" \in DOMAIN all_results[2]
    /\ all_results[3].significant
    /\ Len(all_results[3].posthoc) = 3

\* ----------------------------------------------------------------- C17
\* C17: when the two-sample test of a pair raises, the pair is recorded with
\* significant = false and the message, and the remaining pairs are still
\* processed: the list perform_posthoc_tests returns has one record per pair
\* of `comparisons`, in order, and no post-hoc function that tests the pairs
\* one by one is left by an exception of a pair's test.
C17_PairFailureDoesNotAbort ==
    /\ (ph_entry = "posthoc" /\ ph_pc = "done") =>
          /\ Len(posthoc_results) = Len(comparisons)
          /\ \A m \in 1..Len(posthoc_results) :
                /\ <<posthoc_results[m].group1, posthoc_results[m].group2>> = comparisons[m]
                /\ "error" \in DOMAIN posthoc_results[m] => ~posthoc_results[m].significant
    /\ ph_entry \in {"posthoc", "bonferroni", "tukey_fallback"} => ph_pc # "raised"

\* ----------------------------------------------------------------- C18
\* C18: an exception of scipy's routine inside a normality test or an omnibus
\* test never leaves the test function: none of them ends raised, and the
\* driver that calls them is not left by their exception either.
C18_RoutineExceptionsCaught ==
    /\ norm_pc # "raised"
    /\ drv_pc # "raised"
    /\ ph_entry \in {"kruskal", "anova", "main"} => ph_pc # "raised"

\* ----------------------------------------------------------------- C19
BatchReturned == batch_pc \in {"returned", "exit1", "saved"}

\* the k-th file's load fails
LoadFails(k) == load_data_from_csv(batch_files[k], batch_column).raised

\* C19: when process_all_files has returned, its list holds exactly one record
\* for every file found, in file order: a structured error record (folder,
\* error, n = 0) for a file that fails to load, a test result for the others;
\* and once save_batch_results_to_csv has written, there is one row per record,
\* in order, the row of an error record carrying the error as its note.
C19_OneResultPerFile ==
    /\ BatchReturned =>
         /\ Len(batch_results) = Len(batch_files)
         /\ \A k \in 1..Len(batch_results) :
              /\ batch_results[k].folder = batch_files[k].folder
              /\ ("error" \in DOMAIN batch_results[k]) = LoadFails(k)
              /\ LoadFails(k) => batch_results[k].n = 0
              /\ ~LoadFails(k) =>
                   /\ {"statistic", "p_value", "normal"} \subseteq DOMAIN batch_results[k]
                   /\ batch_results[k].n = Len(batch_files[k].values)
    /\ batch_pc = "saved" =>
         /\ Len(csv_rows) = Len(batch_results)
         /\ \A k \in 1..Len(csv_rows) :
              /\ csv_rows[k].Carpeta = batch_results[k].folder
              /\ "error" \in DOMAIN batch_results[k] =>
                   /\ csv_rows[k].Nota = batch_results[k].error
                   /\ csv_rows[k].N = 0
              /\ "error" \notin DOMAIN batch_results[k] =>
                   csv_rows[k].N = batch_results[k].n

\* a saved batch of three files in which the second file failed to load and
\* the test of the third one raised inside the routine
C19_Witness ==
    /\ batch_pc = "saved"
    /\ Len(batch_files) = 3
    /\ ~LoadFails(1) /\ LoadFails(2) /\ ~LoadFails(3)
    /\ "note" \in DOMAIN batch_results[3]
    /\ batch_results[3].note = "error"
    /\ Len(csv_rows) = 3

\* ----------------------------------------------------------------- C20
\* the results of the groups on which stats.anderson answered
AdTested == {name \in DOMAIN results : "critical_alpha" \in DOMAIN results[name]}

\* no tabulated level is nearer to alpha than the i-th one
IsNearestLevel(i, alpha) ==
    \A m \in 1..Len(SignificanceLevels) :
        Abs(SignificanceLevels[i] - alpha) <= Abs(SignificanceLevels[m] - alpha)

\* C20: in perform_anderson_darling_test every group on which the test ran has
\* normal == (statistic <= critical_value), where critical_value is the one
\* tabulated for a level of {15%, 10%, 5%, 2.5%, 1%} nearest to the requested
\* alpha, and critical_alpha is that level.
C20_NormalIffBelowNearestCritical ==
    method = "AD" =>
        \A name \in AdTested :
            LET r == results[name]
            IN  \E i \in 1..Len(SignificanceLevels) :
                    /\ IsNearestLevel(i, significance_level)
                    /\ r.critical_alpha = SignificanceLevels[i]
                    /\ r.critical_value = Num(CriticalValues[i])
                    /\ r.normal = FLe(r.statistic, r.critical_value)

\* a returned call at alpha = 0.01 with a group whose statistic lies between
\* the 5% and the 1% critical values, judged normal at the 1% level
C20_Witness ==
    /\ method = "AD"
    /\ norm_pc = "done"
    /\ significance_level = 10000
    /\ \E name \in AdTested :
         /\ results[name].statistic = Num(1000)
         /\ results[name].critical_alpha = 10000
         /\ results[name].normal

\* ----------------------------------------------------------------- C21
\* the statistic of a tested group lies strictly between the i-th and the
\* (i+1)-th critical value returned for the levels [15, 10, 5, 2.5, 1]
StrictlyBetween(r, i) ==
    /\ FLt(Num(CriticalValues[i]), r.statistic)
    /\ FLt(r.statistic, Num(CriticalValues[i + 1]))

\* p lies on the line through (cv_i, level_i) and (cv_i+1, level_i+1), up to
\* the rounding of one unit of 1e-6
IsInterpolation(r, i) ==
    LET cv1 == CriticalValues[i]
        cv2 == CriticalValues[i + 1]
        a1 == SignificanceLevels[i]
        a2 == SignificanceLevels[i + 1]
    IN  /\ ~r.p_value.nan
        /\ a2 < r.p_value.v /\ r.p_value.v < a1
        /\ Abs((r.p_value.v - a1) * (cv2 - cv1) - (r.statistic.v - cv1) * (a2 - a1))
               <= cv2 - cv1

\* C21: a tested group whose Anderson-Darling statistic lies strictly between
\* two adjacent tabulated critical values reports as p_value the linear
\* interpolation between the two bracketing significance levels.
C21_PValueInterpolated ==
    method = "AD" =>
        \A name \in AdTested :
            \A i \in 1..(Len(CriticalValues) - 1) :
                StrictlyBetween(results[name], i) => IsInterpolation(results[name], i)

\* ----------------------------------------------------------------- C22
\* C22: outside the tabulated range the Anderson-Darling p_value is clamped:
\* a statistic below the smallest critical value gives 0.01, one above the
\* largest gives 0.15, and every reported p_value lies in [0.01, 0.15].
C22_PValueClamped ==
    method = "AD" =>
        \A name \in AdTested :
            LET r == results[name]
            IN  /\ FLt(r.statistic, Num(SeqMin(CriticalValues))) => r.p_value = Num(10000)
                /\ FLt(Num(SeqMax(CriticalValues)), r.statistic) => r.p_value = Num(150000)
                /\ FLe(Num(10000), r.p_value) /\ FLe(r.p_value, Num(150000))

\* a returned call with one group below the table and one group above it
C22_Witness ==
    /\ method = "AD"
    /\ norm_pc = "done"
    /\ \E a, b \in AdTested :
         /\ results[a].statistic = Num(300) /\ results[a].p_value = Num(10000)
         /\ results[b].statistic = Num(1200) /\ results[b].p_value = Num(150000)

\* ----------------------------------------------------------------- C29
\* C29: for every group on which the Anderson-Darling test ran, the verdict
\* and the p_value agree at the level used: normal implies
\* p_value >= critical_alpha, not normal implies p_value <= critical_alpha.
C29_VerdictAgreesWithPValue ==
    method = "AD" =>
        \A name \in AdTested :
            LET r == results[name]
            IN  /\ r.normal => FGe(r.p_value, Num(r.critical_alpha))
                /\ ~r.normal => FLe(r.p_value, Num(r.critical_alpha))

\* ----------------------------------------------------------------- C23
\* the folders of the grid promedio_{06,07,08}_{1,01,001}_{50,100,200}
GridFolders == {CandidateFolders[k] : k \in 1..27}

\* what the tokens of a grid folder encode, in millionths: 06 is 0.6, and the
\* mutation tokens 1, 01, 001 are 0.1, 0.01, 0.001
EncodedCrossover(token) == NumberOf(token) * 100000

EncodedMutation(token) ==
    IF token = <<"1">> THEN 100000
    ELSE IF token = <<"0", "1">> THEN 10000
    ELSE 1000

\* the rows loaded from folders of the grid
GridRows == {k \in 1..Len(all_data) : all_data[k].folder \in GridFolders}

\* C23: every row loaded from a folder of the experiment grid carries the
\* crossover, mutation and population its folder name encodes, and once the
\* factors have been grouped, a table loaded from grid folders has one
\* mutation group per distinct mutation token.
C23_GridFolderParsed ==
    /\ \A k \in GridRows :
         /\ all_data[k].crossover = EncodedCrossover(all_data[k].folder[2])
         /\ all_data[k].mutation = EncodedMutation(all_data[k].folder[3])
         /\ all_data[k].population = NumberOf(all_data[k].folder[4])
    /\ (grid_pc = "done" /\ GridRows = 1..Len(all_data)) =>
          Len(grid_groups[2]) = Cardinality({all_data[k].folder[3] : k \in GridRows})

\* ----------------------------------------------------------------- C24
\* C24: in the CSV written by the parallel replicate runner, the Seed of the
\* row of replicate r is the seed that was passed to the run of replicate r.
C24_RowPairsReplicateWithItsSeed ==
    run_pc = "saved" =>
        \A k \in 1..Len(saved_rows) :
            saved_rows[k].Seed = futures[saved_rows[k].Replica].seed

\* ----------------------------------------------------------------- C26
PoolIsOver == run_pc \in {"summary", "exit1", "saved"}

\* how many times replicate r is recorded in each of the two lists
TimesInHypervolumes(r) ==
    Cardinality({k \in 1..Len(hypervolumes) : hypervolumes[k][1] = r})

TimesInFailed(r) ==
    Cardinality({k \in 1..Len(failed_replicates) : failed_replicates[k] = r})

\* C26: once the process pool has finished, every replicate 1..NUM_REPLICATES
\* is recorded exactly once, in `hypervolumes` or in `failed_replicates`.
C26_EveryReplicateRecordedOnce ==
    PoolIsOver =>
        \A r \in 1..NUM_REPLICATES : TimesInHypervolumes(r) + TimesInFailed(r) = 1

\* the pool has finished with the last replicate collected first, successful
\* and failed replicates both present
C26_Witness ==
    /\ run_pc = "summary"
    /\ Len(hypervolumes) >= 1
    /\ Len(failed_replicates) >= 1
    /\ hypervolumes[1][1] = NUM_REPLICATES
    /\ failed_replicates[1] > 1

\* ----------------------------------------------------------------- C27
\* C27: the hypervolume recorded for replicate r is the value the run of
\* replicate r produced, whether it was found in the run's stdout or read
\* back from the shared statistics CSV.
C27_HypervolumeIsOwnRun ==
    \A k \in 1..Len(hypervolumes) :
        hypervolumes[k][2] = HypervolumeOf(futures[hypervolumes[k][1]].seed)

\* ----------------------------------------------------------------- C25
MatrixComputed == conf_pc \in {"pairs", "done"}

\* the relation of the claim on the exams as loaded
InConflict(exam1, exam2) ==
    /\ exam1.semestre > 0
    /\ exam1.semestre = exam2.semestre
    /\ \/ exam1.carreras \cap exam2.carreras # {}
       \/ "todas" \in exam1.carreras
       \/ "todas" \in exam2.carreras

\* C25: calculate_conflict_matrix marks two distinct exams as in conflict iff
\* they have the same semester > 0 and share a career or one of them is
\* tagged 'todas'; exams of semester 0 conflict with nothing.
C25_ConflictIffSameSemesterSharedCareer ==
    MatrixComputed =>
        \A i, j \in 1..Len(examenes) :
            i # j => ((conflict_matrix[i][j] = 1) <=> InConflict(examenes[i], examenes[j]))

\* ----------------------------------------------------------------- C28
\* two exams are filed under a common key of conflict_groups
ShareGroup(id1, id2) ==
    \E key \in DOMAIN conflict_groups :
        id1 \in Range(conflict_groups[key]) /\ id2 \in Range(conflict_groups[key])

\* C28: for exams whose id is their list index, two distinct exams share a
\* conflict group key iff their entry in the conflict matrix is 1, and the
\* matrix is symmetric with a zero diagonal.
C28_GroupsAndMatrixAgree ==
    MatrixComputed =>
        \A i, j \in 1..Len(examenes) :
            /\ conflict_matrix[i][j] = conflict_matrix[j][i]
            /\ conflict_matrix[i][i] = 0
            /\ i # j => (ShareGroup(examenes[i].id, examenes[j].id)
                            <=> conflict_matrix[i][j] = 1)

\* three exams of one semester: one of a career, two tagged 'todas' that are
\* in conflict with it and with each other through the expansion
C28_Witness ==
    /\ conf_pc = "done"
    /\ Len(examenes) = 3
    /\ examenes[1].semestre = 1 /\ examenes[1].carreras = {"civil"}
    /\ examenes[2].semestre = 1 /\ examenes[2].carreras = {"todas"}
    /\ examenes[3].semestre = 1 /\ examenes[3].carreras = {"todas"}
    /\ conflict_pairs = << <<0, 1>>, <<0, 2>>, <<1, 2>> >>
    /\ DOMAIN conflict_groups = {<<1, "civil">>}

\* ----------------------------------------------------------------- C30
MainEnded == amain_pc \in {"exit1", "raised", "completed"}

\* analyze_by_configuration returned results for at least one parameter or
\* metric (those with fewer than 2 groups are passed over) and no error
AnalysisHasResults ==
    /\ drv_pc = "done"
    /\ DOMAIN anova_results # {}
    /\ "error" \notin DOMAIN anova_results

\* C30: when data are available and at least one factor has 2 or more groups,
\* main of anova_test.py prints and saves the results and reaches the
\* 'analysis completed' step without raising; when analyze_by_configuration
\* reports an error, main stops with the error exit.
C30_MainRunsToCompletion ==
    MainEnded =>
        /\ AnalysisHasResults => amain_pc = "completed"
        /\ (drv_pc = "done" /\ "error" \in DOMAIN anova_results) => amain_pc = "exit1"

====
